---- MODULE Spec2Model ----
(***************************************************************************)
(* FriendFinderModule (src/src/modules/FriendFinderModule.cpp): the        *)
(* pairing / tracking session protocol between handheld radios, its friend *)
(* directory and the GPS power coordination.                               *)
(*                                                                         *)
(* Two full devices (Peers) run the module; a third node (Stranger) only   *)
(* emits packets.  Time is the millis() clock sampled on an 8 ms grid, so  *)
(* that the 32-bit millisecond counter (2^32 ms) is 2^29 grid units.       *)
(***************************************************************************)
EXTENDS Integers, Sequences, FiniteSets, TLC

\* ------------------------------------------------------------- constants
MAX_FRIENDS == 8
PAIRING_WINDOW_MS == 30000
UPDATE_INTERVAL == 15
BACKGROUND_UPDATE_INTERVAL == 120
HIGH_GPS_INTERVAL == 2
DEFAULT_GPS_INTERVAL == 300
NUM_MENU == 5
NUM_OVERLAY == 2
NUM_FRIEND_ACTIONS == 3
NUM_CAL_MENU == 6
NUM_MAP_MENU == 3

\* one grid unit of the clock, in milliseconds: the largest power of two that
\* divides every interval of the module
MsPerUnit == 2^3
\* the range of the uint32_t millisecond counter, in grid units (2^32 / 8)
Wrap32 == 2^29
Ms(ms) == ms \div MsPerUnit

\* ---------------------------------------------------------------- bounds
\* the clock advances by one pairing window at a time, at most MaxSteps times
StepMs == PAIRING_WINDOW_MS
MaxSteps == 1
\* packets between the two peers that can be in flight at once
MaxNet == 2
\* packet buffers the transport can hand out during one handler run
MaxAlloc == 2
\* values drawn by random() for session_id and for the secret
MaxRandom == 1

Step == Ms(StepMs)
StartTime == Step
MaxTime == StartTime + MaxSteps * Step

\* ----------------------------------------------------------------- nodes
Peers == {1, 2}
Stranger == 1 + Cardinality(Peers)
Nodes == Peers \cup {Stranger}
\* NODENUM_BROADCAST (0xFFFFFFFF, all ones)
NODENUM_BROADCAST == 0 - 1

\* what the position source of a node reports while it has a lock
Lat(n) == 100 + n
Lon(n) == 200 + n
Sats(n) == 4 + n
Battery(n) == 50
\* config.position.gps_update_interval as configured by the user of device n
\* (0 is the firmware's "use the default" value)
UserGpsInterval(n) == IF n = 1 THEN 0 ELSE 60 * (n - 1)

\* --------------------------------------------------------- 32-bit clock
U32(x) == x % Wrap32
\* (int32_t) of a uint32_t value
I32(x) == IF U32(x) >= Wrap32 \div 2 THEN U32(x) - Wrap32 ELSE U32(x)

\* ------------------------------------------------------------ telemetry
\* meshtastic_FriendFinder_init_default
FF_init_default ==
  [request_type |-> "NONE", latitude_i |-> 0, longitude_i |-> 0,
   sats_in_view |-> 0, battery_level |-> 0]

FriendRecord_init ==
  [node |-> 0, session_id |-> 0, secret |-> 0, used |-> FALSE,
   last_data |-> FF_init_default, last_heard_time |-> 0]

Slots == 0 .. (MAX_FRIENDS - 1)

VARIABLES
  dev,      \* dev[n]: the member variables of the module on device n
  hasLock,  \* hasLock[n]: gpsStatus->getHasLock() on device n
  now,      \* millis()
  net,      \* packets in flight between the peers
  last,     \* the handler that ran last, with what it did to the outside
  mag       \* the compass (MagnetometerModule) of the device under test

vars == <<dev, hasLock, now, net, last, mag>>

\* ------------------------------------------------------------ compass
\* MagnetometerModule after setup(): haveMag is what the probe of the buses
\* found, and headingIsValid = haveMag. One axis of the three stands for all:
\* the code treats X, Y and Z alike. bias2X is twice biasX (maxX + minX);
\* saved counts the calls of saveCalPrefs, started those of
\* startFigure8Calibration; calWasActive and banner are the view that
\* FriendFinderModule::runOnce has of isCalibrating().
MagnetometerInit(haveMag) ==
  [haveMag |-> haveMag, headingIsValid |-> haveMag,
   calibrating |-> FALSE, calStartMs |-> 0, calDurationMs |-> Ms(15000),
   calHasData |-> FALSE, minX |-> 0, maxX |-> 0, bias2X |-> 0,
   saved |-> 0, started |-> 0, calWasActive |-> FALSE, banner |-> "none"]

\* startFigure8Calibration(durationMs) at millis() = t
startFigure8Calibration(g, durationMs, t) ==
  IF ~g.haveMag THEN g
  ELSE [g EXCEPT !.calibrating = TRUE,
                 !.calHasData = FALSE,
                 !.calStartMs = t,
                 !.calDurationMs = IF durationMs # 0 THEN durationMs ELSE Ms(15000)]

\* variant: the end of the calibration is compared with the clock as if the
\* clock never wrapped
CalibrationOver_nowrap(g, t) == t >= g.calStartMs + g.calDurationMs

\* elapsed >= calDurationMs, with elapsed = now - calStartMs in uint32_t
CalibrationOver(g, t) == U32(t - g.calStartMs) >= g.calDurationMs

\* MagnetometerModule::runOnce at millis() = t; ok: qmcReadRaw succeeded,
\* with rx the raw reading
Magnetometer_runOnce(g, ok, rx, t) ==
  IF ~g.headingIsValid THEN g
  ELSE IF ~ok THEN g
  ELSE IF ~g.calibrating THEN g
  ELSE LET g1 == IF ~g.calHasData
                 THEN [g EXCEPT !.minX = rx, !.maxX = rx, !.calHasData = TRUE]
                 ELSE [g EXCEPT !.minX = IF rx < @ THEN rx ELSE @,
                                !.maxX = IF rx > @ THEN rx ELSE @]
       IN IF CalibrationOver(g1, t)
          THEN IF g1.calHasData
               THEN [g1 EXCEPT !.calibrating = FALSE,
                               !.bias2X = g1.maxX + g1.minX,
                               !.saved = @ + 1]
               ELSE [g1 EXCEPT !.calibrating = FALSE]
          ELSE g1

\* FriendFinderModule::runOnce shows the progress of the calibration
calibrationBanner(g) ==
  IF g.calibrating /\ ~g.calWasActive
  THEN [g EXCEPT !.calWasActive = TRUE, !.banner = "calibrating"]
  ELSE IF ~g.calibrating /\ g.calWasActive
  THEN [g EXCEPT !.calWasActive = FALSE, !.banner = "done"]
  ELSE g

\* ------------------------------------------------------- friend store
getUsedFriendsCount(m) == Cardinality({i \in Slots : m.friends_[i].used})

\* variant: no record is ever found
findFriend_none(m, node) ==
  0 - 1

\* variant: a slot is found by its node id alone
findFriend_stale(m, node) ==
  IF \E i \in Slots : m.friends_[i].node = node
  THEN CHOOSE i \in Slots :
         /\ m.friends_[i].node = node
         /\ \A j \in Slots : m.friends_[j].node = node => i <= j
  ELSE -1

findFriend(m, node) ==
  IF \E i \in Slots : m.friends_[i].used /\ m.friends_[i].node = node
  THEN CHOOSE i \in Slots :
         /\ m.friends_[i].used /\ m.friends_[i].node = node
         /\ \A j \in Slots : (m.friends_[j].used /\ m.friends_[j].node = node) => i <= j
  ELSE -1

\* variant: the rows of the list are counted from 0, with no 'Back' row
getFriendSlotByListIndex_zerobased(m, listIdx) ==
  IF listIdx < 0 THEN -1
  ELSE LET hit == {s \in Slots : m.friends_[s].used
                       /\ Cardinality({t \in Slots : t <= s /\ m.friends_[t].used}) = listIdx + 1}
       IN IF hit = {} THEN -1 ELSE CHOOSE s \in hit : TRUE

getFriendSlotByListIndex(m, listIdx) ==
  IF listIdx <= 0 THEN -1
  ELSE LET hit == {s \in Slots : m.friends_[s].used
                       /\ Cardinality({t \in Slots : t <= s /\ m.friends_[t].used}) = listIdx}
       IN IF hit = {} THEN -1 ELSE CHOOSE s \in hit : TRUE

saveFriends(c) == [c EXCEPT !.saves = @ + 1]

removeFriendAt(c, listIdx) ==
  LET slot == getFriendSlotByListIndex(c, listIdx)
  IN IF slot < 0 THEN c
     ELSE saveFriends([c EXCEPT !.friends_[slot].used = FALSE])

\* variant: a record always goes to the first free slot
UpsertSlot_firstfree(m, node) ==
  LET free == {i \in Slots : ~m.friends_[i].used}
  IN IF free # {} THEN CHOOSE i \in free : \A j \in free : i <= j
     ELSE 0

\* variant: a full directory gives up its last slot
UpsertSlot_last(m, node) ==
  LET idx == findFriend(m, node)
      free == {i \in Slots : ~m.friends_[i].used}
  IN IF idx >= 0 THEN idx
     ELSE IF free # {} THEN CHOOSE i \in free : \A j \in free : i <= j
     ELSE MAX_FRIENDS - 1

UpsertSlot(m, node) ==
  LET idx == findFriend(m, node)
      free == {i \in Slots : ~m.friends_[i].used}
  IN IF idx >= 0 THEN idx
     ELSE IF free # {} THEN CHOOSE i \in free : \A j \in free : i <= j
     ELSE 0

\* variant: the secret of a known friend is kept
upsertFriend_keepsecret(c, node, session_id, secret) ==
  LET idx == UpsertSlot(c, node)
  IN saveFriends([c EXCEPT !.friends_[idx].node = node,
                           !.friends_[idx].session_id = session_id,
                           !.friends_[idx].secret =
                             IF findFriend(c, node) >= 0 THEN @ ELSE secret,
                           !.friends_[idx].used = TRUE])

upsertFriend(c, node, session_id, secret) ==
  LET idx == UpsertSlot(c, node)
  IN saveFriends([c EXCEPT !.friends_[idx].node = node,
                           !.friends_[idx].session_id = session_id,
                           !.friends_[idx].secret = secret,
                           !.friends_[idx].used = TRUE])

\* ----------------------------------------------------- GPS mode control
\* variant: the boost is applied again while it is on
activateHighGpsMode_again(c) ==
  IF c.gps_update_interval # HIGH_GPS_INTERVAL \/ c.isGpsHighPower
  THEN [c EXCEPT !.originalGpsUpdateInterval = c.gps_update_interval,
                 !.gps_update_interval = HIGH_GPS_INTERVAL,
                 !.reloads = @ + 1,
                 !.isGpsHighPower = TRUE]
  ELSE c

activateHighGpsMode(c) ==
  IF ~c.isGpsHighPower /\ c.gps_update_interval # HIGH_GPS_INTERVAL
  THEN [c EXCEPT !.originalGpsUpdateInterval = c.gps_update_interval,
                 !.gps_update_interval = HIGH_GPS_INTERVAL,
                 !.reloads = @ + 1,
                 !.isGpsHighPower = TRUE]
  ELSE c

\* variant: the restore falls back on the default interval
restoreNormalGpsMode_default(c) ==
  IF c.isGpsHighPower
  THEN [c EXCEPT !.gps_update_interval = DEFAULT_GPS_INTERVAL,
                 !.reloads = @ + 1,
                 !.isGpsHighPower = FALSE]
  ELSE c

restoreNormalGpsMode(c) ==
  IF c.isGpsHighPower
  THEN [c EXCEPT !.gps_update_interval = c.originalGpsUpdateInterval,
                 !.reloads = @ + 1,
                 !.isGpsHighPower = FALSE]
  ELSE c

raiseUIEvent(c, a) == [c EXCEPT !.ui = Append(@, a)]

\* variant: only an interval equal to the boosted value is taken for a crash
setup_exact(c) ==
  IF c.gps_update_interval = HIGH_GPS_INTERVAL
  THEN [c EXCEPT !.gps_update_interval = DEFAULT_GPS_INTERVAL,
                 !.reloads = @ + 1]
  ELSE c

\* the failsafe of setup(): a low interval found at boot is a boost that a
\* crash left behind
setup(c) ==
  IF c.gps_update_interval > 0 /\ c.gps_update_interval <= HIGH_GPS_INTERVAL
  THEN [c EXCEPT !.gps_update_interval = DEFAULT_GPS_INTERVAL,
                 !.reloads = @ + 1]
  ELSE c

\* -------------------------------------------------------------------- TX
\* c.self, c.lock: the device and its position lock; c.alloc: the packet
\* buffers router->allocForSending() can still hand out; c.tSend: what
\* millis() returns once a packet has been handed to the mesh.

\* variant: the payload carries the last known position whatever the lock
Packet_stale(c, dst, type, hopLimit) ==
  [from |-> c.self, to |-> dst, hop |-> hopLimit,
   ff |-> [request_type |-> type,
           latitude_i |-> Lat(c.self),
           longitude_i |-> Lon(c.self),
           sats_in_view |-> IF c.lock THEN Sats(c.self) ELSE 0,
           battery_level |-> Battery(c.self)]]

Packet(c, dst, type, hopLimit) ==
  [from |-> c.self, to |-> dst, hop |-> hopLimit,
   ff |-> [request_type |-> type,
           latitude_i |-> IF c.lock THEN Lat(c.self) ELSE 0,
           longitude_i |-> IF c.lock THEN Lon(c.self) ELSE 0,
           sats_in_view |-> IF c.lock THEN Sats(c.self) ELSE 0,
           battery_level |-> Battery(c.self)]]

\* variant: the time of sending is recorded although no buffer was free
sendFriendFinderPacket_stamp(c, dst, type, hopLimit) ==
  IF c.alloc = 0 THEN [c EXCEPT !.lastSentPacketTime = c.tSend]
  ELSE [c EXCEPT !.alloc = @ - 1,
                 !.out = Append(@, Packet(c, dst, type, hopLimit)),
                 !.lastSentPacketTime = c.tSend]

sendFriendFinderPacket(c, dst, type, hopLimit) ==
  IF c.alloc = 0 THEN c
  ELSE [c EXCEPT !.alloc = @ - 1,
                 !.out = Append(@, Packet(c, dst, type, hopLimit)),
                 !.lastSentPacketTime = c.tSend]

\* ------------------------------------------------------ UI entry points
launchMenu(c) ==
  raiseUIEvent([c EXCEPT !.currentState = "MENU_SELECTION"], "REGENERATE_FRAMESET")

\* variant: the discovery is broadcast and awaited without a window
beginPairing_nowindow(c) ==
  LET c1 == [c EXCEPT !.currentState = "AWAITING_RESPONSE"]
      c2 == sendFriendFinderPacket(c1, NODENUM_BROADCAST, "REQUEST", 1)
  IN [c2 EXCEPT !.lastSentPacketTime = c.tSend]

beginPairing(c) ==
  LET c1 == [c EXCEPT !.pairingWindowOpen = TRUE,
                      !.pairingWindowExpiresAt = U32(c.tNow + Ms(PAIRING_WINDOW_MS)),
                      !.currentState = "AWAITING_RESPONSE"]
      c2 == sendFriendFinderPacket(c1, NODENUM_BROADCAST, "REQUEST", 1)
  IN [c2 EXCEPT !.lastSentPacketTime = c.tSend]

\* variant: the directed REQUEST is limited to one hop, as the discovery is
requestMutualTracking_onehop(c, nodeNum) ==
  IF nodeNum = 0 \/ nodeNum = c.self THEN c
  ELSE LET c1 == [c EXCEPT !.targetNodeNum = nodeNum,
                           !.currentState = "AWAITING_RESPONSE",
                           !.pairingWindowOpen = TRUE,
                           !.pairingWindowExpiresAt = U32(c.tNow + Ms(PAIRING_WINDOW_MS))]
           c2 == sendFriendFinderPacket(c1, nodeNum, "REQUEST", 1)
       IN [c2 EXCEPT !.lastSentPacketTime = c.tSend]

requestMutualTracking(c, nodeNum) ==
  IF nodeNum = 0 \/ nodeNum = c.self THEN c
  ELSE LET c1 == [c EXCEPT !.targetNodeNum = nodeNum,
                           !.currentState = "AWAITING_RESPONSE",
                           !.pairingWindowOpen = TRUE,
                           !.pairingWindowExpiresAt = U32(c.tNow + Ms(PAIRING_WINDOW_MS))]
           c2 == sendFriendFinderPacket(c1, nodeNum, "REQUEST", 0)
       IN [c2 EXCEPT !.lastSentPacketTime = c.tSend]

\* variant: the peer is told of every teardown, whoever started it
NotifiesPeer_always(c, notifyPeer) == c.targetNodeNum # 0

NotifiesPeer(c, notifyPeer) == notifyPeer /\ c.targetNodeNum # 0

endSession(c, notifyPeer) ==
  LET c1 == IF NotifiesPeer(c, notifyPeer)
            THEN sendFriendFinderPacket(c, c.targetNodeNum, "END_SESSION", 0)
            ELSE c
      c2 == [c1 EXCEPT !.targetNodeNum = 0,
                       !.pairingWindowOpen = FALSE,
                       !.currentState = "IDLE"]
  IN raiseUIEvent(restoreNormalGpsMode(c2), "REGENERATE_FRAMESET_BACKGROUND")

\* -------------------------------------------------------------------- RX
\* a REQUEST is served: from a friend, or from anyone while the window is open
\* variant: a REQUEST is served whoever sends it
RequestAccepted_anyone(isDirectedRequest, isInPairingWindow) ==
  TRUE

RequestAccepted(isDirectedRequest, isInPairingWindow) ==
  isDirectedRequest \/ isInPairingWindow

\* variant: every served REQUEST writes the friend record
NewFriendFromPairing_always(isDirectedRequest, isInPairingWindow) ==
  isDirectedRequest \/ isInPairingWindow

NewFriendFromPairing(isDirectedRequest, isInPairingWindow) ==
  ~isDirectedRequest /\ isInPairingWindow

\* variant: an ACCEPT is taken from any node while a response is awaited
AcceptAwaited_anyone(c, from) ==
  c.currentState = "AWAITING_RESPONSE"

AcceptAwaited(c, from) ==
  c.currentState = "AWAITING_RESPONSE" /\ from = c.targetNodeNum

EndedByTarget(c, from) ==
  from = c.targetNodeNum /\ c.currentState \in {"TRACKING_TARGET", "BEING_TRACKED"}

\* sess, sec: what random() returns for the session id and the secret
handleReceivedProtobuf(c, from, ff, sess, sec) ==
  IF from = c.self THEN c
  ELSE CASE ff.request_type = "REQUEST" ->
         LET isDirectedRequest == findFriend(c, from) >= 0
             isInPairingWindow == c.pairingWindowOpen
             c1 == [c EXCEPT !.targetNodeNum = from,
                             !.currentState = "BEING_TRACKED"]
             c2 == [activateHighGpsMode(c1) EXCEPT !.pairingWindowOpen = FALSE]
             c3 == IF NewFriendFromPairing(isDirectedRequest, isInPairingWindow)
                   THEN upsertFriend(c2, from, sess, sec)
                   ELSE c2
             c4 == sendFriendFinderPacket(c3, from, "ACCEPT", 0)
         IN IF RequestAccepted(isDirectedRequest, isInPairingWindow)
            THEN raiseUIEvent(c4, "REGENERATE_FRAMESET")
            ELSE c
       [] ff.request_type = "ACCEPT" ->
         IF AcceptAwaited(c, from)
         THEN LET c1 == [c EXCEPT !.currentState = "TRACKING_TARGET"]
                  c2 == [activateHighGpsMode(c1) EXCEPT
                           !.pairingWindowOpen = FALSE,
                           !.lastFriendPacketTime = c.tNow,
                           !.lastFriendData = ff]
                  c3 == IF findFriend(c2, from) < 0
                        THEN upsertFriend(c2, from, sess, sec)
                        ELSE c2
              IN raiseUIEvent(c3, "REGENERATE_FRAMESET")
         ELSE c
       [] ff.request_type = "END_SESSION" ->
         IF EndedByTarget(c, from)
         THEN endSession(c, FALSE)
         ELSE c
       [] ff.request_type = "NONE" ->
         LET friend_idx == findFriend(c, from)
             c1 == IF friend_idx >= 0
                   THEN [c EXCEPT !.friends_[friend_idx].last_data = ff,
                                  !.friends_[friend_idx].last_heard_time = c.tNow]
                   ELSE c
         IN IF from = c.targetNodeNum
            THEN [c1 EXCEPT !.lastFriendData = ff,
                            !.lastFriendPacketTime = c.tNow]
            ELSE c1
       [] OTHER -> c

\* ---------------------------------------------------------------- thread
States ==
  {"IDLE", "MENU_SELECTION", "FRIEND_LIST", "FRIEND_LIST_ACTION", "FRIEND_MAP",
   "CALIBRATION_MENU", "AWAITING_RESPONSE", "TRACKING_TARGET", "BEING_TRACKED",
   "TRACKING_MENU"}

shouldDraw(c) ==
  c.currentState \in {"TRACKING_TARGET", "BEING_TRACKED", "AWAITING_RESPONSE",
                      "MENU_SELECTION", "TRACKING_MENU", "FRIEND_LIST",
                      "FRIEND_LIST_ACTION", "CALIBRATION_MENU", "FRIEND_MAP"}

\* the loop of the background update over the slots i .. MAX_FRIENDS-1
RECURSIVE BackgroundFanOut(_, _)
BackgroundFanOut(c, i) ==
  IF i >= MAX_FRIENDS THEN c
  ELSE BackgroundFanOut(
         IF c.friends_[i].used
         THEN sendFriendFinderPacket(c, c.friends_[i].node, "NONE", 0)
         ELSE c,
         i + 1)

\* variant: the background update does not wait for a position lock
BackgroundDue_nolock(c) ==
  /\ c.currentState = "IDLE" /\ getUsedFriendsCount(c) > 0
  /\ \/ c.lastBackgroundUpdateTime = 0
     \/ U32(c.tNow - c.lastBackgroundUpdateTime) > Ms(BACKGROUND_UPDATE_INTERVAL * 1000)

\* variant: the background update is due again half an interval early
BackgroundDue_early(c) ==
  /\ c.currentState = "IDLE" /\ getUsedFriendsCount(c) > 0 /\ c.lock
  /\ \/ c.lastBackgroundUpdateTime = 0
     \/ U32(c.tNow - c.lastBackgroundUpdateTime) > Ms(BACKGROUND_UPDATE_INTERVAL * 500)

BackgroundDue(c) ==
  /\ c.currentState = "IDLE" /\ getUsedFriendsCount(c) > 0 /\ c.lock
  /\ \/ c.lastBackgroundUpdateTime = 0
     \/ U32(c.tNow - c.lastBackgroundUpdateTime) > Ms(BACKGROUND_UPDATE_INTERVAL * 1000)

\* variant: the window is still open at the instant it expires
PairingWindowExpired_late(c) ==
  c.pairingWindowOpen /\ I32(c.tNow - c.pairingWindowExpiresAt) > 0

\* variant: the clock is compared with the expiry as if it never wrapped
PairingWindowExpired_nowrap(c) ==
  c.pairingWindowOpen /\ c.tNow >= c.pairingWindowExpiresAt

PairingWindowExpired(c) ==
  c.pairingWindowOpen /\ I32(c.tNow - c.pairingWindowExpiresAt) >= 0

\* variant: only the tracked side beacons
BeaconDue_tracked(c) ==
  /\ U32(c.tNow - c.lastSentPacketTime) > Ms(UPDATE_INTERVAL * 1000) /\ c.targetNodeNum # 0
  /\ c.currentState = "BEING_TRACKED"

BeaconDue(c) ==
  U32(c.tNow - c.lastSentPacketTime) > Ms(UPDATE_INTERVAL * 1000) /\ c.targetNodeNum # 0

runOnce(c) ==
  LET c1 == IF c.currentState = "FRIEND_MAP" THEN raiseUIEvent(c, "REDRAW_ONLY") ELSE c
      c2 == IF BackgroundDue(c1)
            THEN [BackgroundFanOut(c1, 0) EXCEPT !.lastBackgroundUpdateTime = c.tNow]
            ELSE c1
      c3 == IF PairingWindowExpired(c2)
            THEN [c2 EXCEPT !.pairingWindowOpen = FALSE,
                            !.currentState = IF c2.currentState = "AWAITING_RESPONSE"
                                             THEN "MENU_SELECTION" ELSE @]
            ELSE c2
      \* case BEING_TRACKED, which falls through into case TRACKING_TARGET
      c4 == IF c3.currentState = "BEING_TRACKED" /\ BeaconDue(c3)
            THEN sendFriendFinderPacket(c3, c3.targetNodeNum, "NONE", 0)
            ELSE c3
      c5 == IF c4.currentState \in {"BEING_TRACKED", "TRACKING_TARGET"}
            THEN LET d == IF shouldDraw(c4) THEN raiseUIEvent(c4, "REDRAW_ONLY") ELSE c4
                 IN IF BeaconDue(d)
                    THEN sendFriendFinderPacket(d, d.targetNodeNum, "NONE", 0)
                    ELSE d
            ELSE c4
  IN c5

\* ---------------------------------------------------------------- inputs
\* row: the highlighted row of the list on screen (menuIndex, overlayIndex,
\* calibrationMenuIndex or friendMapMenuIndex, which UP and DOWN only move);
\* mapMenu: friendMapMenuVisible.
toMenu(c) ==
  raiseUIEvent([c EXCEPT !.currentState = "MENU_SELECTION"], "REGENERATE_FRAMESET_BACKGROUND")

\* variant: leaving the menu closes the window and keeps the menu on screen
exitMenu_stay(c) ==
  raiseUIEvent([c EXCEPT !.pairingWindowOpen = FALSE], "REGENERATE_FRAMESET_BACKGROUND")

exitMenu(c) ==
  raiseUIEvent([c EXCEPT !.currentState = "IDLE", !.pairingWindowOpen = FALSE],
               "REGENERATE_FRAMESET_BACKGROUND")

\* variant: the selection stays on its row after a removal
removeSelectedFriend_noclamp(c) ==
  LET c1 == removeFriendAt(c, c.friendListIndex)
      cnt == getUsedFriendsCount(c1)
  IN IF cnt = 0 THEN toMenu(c1)
     ELSE [c1 EXCEPT !.currentState = "FRIEND_LIST"]

removeSelectedFriend(c) ==
  LET c1 == removeFriendAt(c, c.friendListIndex)
      cnt == getUsedFriendsCount(c1)
  IN IF cnt = 0 THEN toMenu(c1)
     ELSE [c1 EXCEPT !.friendListIndex = IF @ < cnt THEN @ ELSE cnt,
                     !.currentState = "FRIEND_LIST"]

handleInputEvent(c, ev, row, mapMenu) ==
  LET isNavDown == ev = "DOWN"
      isSelect == ev = "SELECT"
      isBack == ev = "BACK"
      isNavUp == ev = "UP"
  IN CASE c.currentState = "FRIEND_MAP" ->
            IF mapMenu /\ isNavDown THEN c
            ELSE IF mapMenu /\ isSelect THEN (IF row = 2 THEN toMenu(c) ELSE c)
            ELSE IF ~mapMenu /\ isSelect THEN c
            ELSE IF isBack THEN toMenu(c)
            ELSE c
       [] c.currentState = "CALIBRATION_MENU" ->
            IF isNavUp \/ isNavDown THEN c
            ELSE IF isBack THEN [c EXCEPT !.currentState = "MENU_SELECTION"]
            ELSE IF isSelect /\ row = 0 THEN [c EXCEPT !.currentState = "MENU_SELECTION"]
            ELSE c
       [] c.currentState = "FRIEND_LIST_ACTION" ->
            LET slot == getFriendSlotByListIndex(c, c.friendListIndex)
            IN IF isNavUp \/ isNavDown THEN c
               ELSE IF isBack THEN [c EXCEPT !.currentState = "FRIEND_LIST"]
               ELSE IF isSelect /\ row = 0
                 THEN (IF slot >= 0 THEN requestMutualTracking(c, c.friends_[slot].node) ELSE c)
               ELSE IF isSelect /\ row = 1
                 THEN (IF slot >= 0 THEN removeSelectedFriend(c) ELSE c)
               ELSE IF isSelect /\ row = 2 THEN [c EXCEPT !.currentState = "FRIEND_LIST"]
               ELSE c
       [] c.currentState = "FRIEND_LIST" ->
            LET cnt == getUsedFriendsCount(c) + 1
            IN IF isNavUp THEN [c EXCEPT !.friendListIndex = (@ + cnt - 1) % cnt]
               ELSE IF isNavDown THEN [c EXCEPT !.friendListIndex = (@ + 1) % cnt]
               ELSE IF isBack THEN toMenu(c)
               ELSE IF isSelect
                 THEN (IF c.friendListIndex = 0 THEN toMenu(c)
                       ELSE [c EXCEPT !.currentState = "FRIEND_LIST_ACTION"])
               ELSE c
       [] c.currentState = "TRACKING_MENU" ->
            IF isNavUp \/ isNavDown THEN c
            ELSE IF isBack THEN [c EXCEPT !.currentState = c.previousState]
            ELSE IF isSelect /\ row = 0 THEN endSession(c, TRUE)
            ELSE IF isSelect /\ row = 1 THEN [c EXCEPT !.currentState = c.previousState]
            ELSE c
       [] c.currentState \in {"TRACKING_TARGET", "BEING_TRACKED"} ->
            IF isSelect THEN [c EXCEPT !.previousState = c.currentState,
                                       !.currentState = "TRACKING_MENU"]
            ELSE IF isBack THEN endSession(c, TRUE)
            ELSE c
       [] c.currentState = "MENU_SELECTION" ->
            IF isNavUp \/ isNavDown THEN c
            ELSE IF isBack THEN exitMenu(c)
            ELSE IF isSelect /\ row = 0 THEN exitMenu(c)
            ELSE IF isSelect /\ row = 1 THEN beginPairing(c)
            ELSE IF isSelect /\ row = 2
              THEN (IF getUsedFriendsCount(c) > 0
                    THEN raiseUIEvent([c EXCEPT !.friendListIndex = 0,
                                                !.currentState = "FRIEND_LIST"],
                                      "REGENERATE_FRAMESET")
                    ELSE c)
            ELSE IF isSelect /\ row = 3
              THEN raiseUIEvent([c EXCEPT !.currentState = "FRIEND_MAP"], "REGENERATE_FRAMESET")
            ELSE IF isSelect /\ row = 4
              THEN raiseUIEvent([c EXCEPT !.currentState = "CALIBRATION_MENU"],
                                "REGENERATE_FRAMESET")
            ELSE c
       [] OTHER -> c

\* the rows of the list that is on screen in state st
Rows(st) ==
  0 .. ((CASE st = "MENU_SELECTION" -> NUM_MENU
           [] st = "TRACKING_MENU" -> NUM_OVERLAY
           [] st = "FRIEND_LIST_ACTION" -> NUM_FRIEND_ACTIONS
           [] st = "CALIBRATION_MENU" -> NUM_CAL_MENU
           [] st = "FRIEND_MAP" -> NUM_MAP_MENU
           [] OTHER -> 1) - 1)

\* ------------------------------------------------------------ the system
ModuleFields ==
  {"currentState", "previousState", "targetNodeNum", "lastFriendData",
   "lastFriendPacketTime", "lastSentPacketTime", "lastBackgroundUpdateTime",
   "pairingWindowOpen", "pairingWindowExpiresAt", "isGpsHighPower",
   "originalGpsUpdateInterval", "friends_", "friendListIndex",
   "gps_update_interval"}

\* the module after construction, and config.position of its device
ModuleInit(n) ==
  [currentState |-> "IDLE", previousState |-> "IDLE", targetNodeNum |-> 0,
   lastFriendData |-> FF_init_default, lastFriendPacketTime |-> 0,
   lastSentPacketTime |-> 0, lastBackgroundUpdateTime |-> 0,
   pairingWindowOpen |-> FALSE, pairingWindowExpiresAt |-> 0,
   isGpsHighPower |-> FALSE, originalGpsUpdateInterval |-> 0,
   friends_ |-> [i \in Slots |-> FriendRecord_init], friendListIndex |-> 0,
   gps_update_interval |-> UserGpsInterval(n)]

\* a handler starts on a device n whose module is m: alloc packet buffers are
\* free, and millis() has advanced by latency once the handler has handed a
\* packet to the mesh
Ctx(m, n, alloc, latency) ==
  [f \in ModuleFields |-> m[f]] @@
  [self |-> n, lock |-> hasLock[n], alloc |-> alloc, tNow |-> now,
   tSend |-> U32(now + latency), out |-> <<>>, saves |-> 0, reloads |-> 0,
   ui |-> <<>>]

Begin(n, alloc, latency) == Ctx(dev[n], n, alloc, latency)

Module(c) == [f \in ModuleFields |-> c[f]]

\* the air once the packets of out for the peers are on their way
Transmit(air, out) ==
  air \cup {out[i] : i \in {j \in 1 .. Len(out) :
                             out[j].to \in Peers \cup {NODENUM_BROADCAST}}}

\* the air after a handler run: with mesh, its packets are on their way to the
\* peers; without, the nodes around the device are not modelled
Air(air, c, mesh) == IF mesh THEN Transmit(air, c.out) ELSE air

\* what a handler run did to the outside, and which run it was
Effect(c, op, from, type) ==
  [op |-> op, node |-> c.self, from |-> from, type |-> type, lock |-> c.lock,
   out |-> c.out, saves |-> c.saves, reloads |-> c.reloads, ui |-> c.ui]

\* a handler run that changed nothing and did nothing leaves no trace
Idle(n, c) ==
  /\ Module(c) = dev[n]
  /\ c.out = <<>> /\ c.saves = 0 /\ c.reloads = 0 /\ c.ui = <<>>

\* at most MaxNet packets are in the air: a handler whose packets would not
\* fit runs later
Finish(n, c, op, from, type, air) ==
  /\ Cardinality(air) <= MaxNet
  /\ dev' = [dev EXCEPT ![n] = Module(c)]
  /\ net' = air
  /\ now' = IF c.out = <<>> THEN now ELSE c.tSend
  /\ last' = IF Idle(n, c) THEN last ELSE Effect(c, op, from, type)
  /\ UNCHANGED <<hasLock, mag>>

RequestTypes == {"NONE", "REQUEST", "ACCEPT", "REJECT", "END_SESSION"}
InputEvents == {"UP", "DOWN", "SELECT", "BACK"}
Allocs == 0 .. MaxAlloc
Randoms == 1 .. MaxRandom

NoEffect(op, n, from, type) ==
  [op |-> op, node |-> n, from |-> from, type |-> type, lock |-> FALSE,
   out |-> <<>>, saves |-> 0, reloads |-> 0, ui |-> <<>>]

Init ==
  /\ dev = [n \in Peers |-> ModuleInit(n)]
  /\ hasLock = [n \in Peers |-> FALSE]
  /\ now = StartTime
  /\ net = {}
  /\ last = NoEffect("init", 0, 0, "NONE")
  /\ mag = MagnetometerInit(TRUE)

\* the user opens the module's menu from the home screen
LaunchMenu(n) ==
  /\ dev[n].currentState = "IDLE"
  /\ Finish(n, launchMenu(Begin(n, 0, 0)), "launchMenu", 0, "NONE", net)

\* The buffer counts that make a difference to a handler that asks for `asked`
\* buffers when none is refused: more free buffers than that change nothing.
AllocsFor(asked) == {a \in Allocs : a <= asked}

\* with mesh, the transport of the device has a buffer for every packet
BuffersFor(asked, mesh) == IF mesh THEN {MaxAlloc} ELSE AllocsFor(asked)

\* the input broker reports a button event; sel[st] are the rows the user selects
\* in state st
Input(n, sel, mesh) ==
  \E ev \in InputEvents :
    \E row \in (IF ev = "SELECT" THEN sel[dev[n].currentState] ELSE {0}),
       mapMenu \in (IF dev[n].currentState = "FRIEND_MAP" THEN BOOLEAN ELSE {FALSE}) :
      \E alloc \in BuffersFor(Len(handleInputEvent(Begin(n, MaxAlloc, 0), ev, row, mapMenu).out), mesh) :
        LET c == handleInputEvent(Begin(n, alloc, 0), ev, row, mapMenu)
        IN Finish(n, c, ev, 0, "NONE", Air(net, c, mesh))

\* the scheduler runs the module's thread
TickUntil(n, mesh, horizon) ==
  \E latency \in {0, Step} :
    /\ now + latency <= horizon
    /\ \E alloc \in BuffersFor(Len(runOnce(Begin(n, MaxAlloc, latency)).out), mesh) :
         LET c == runOnce(Begin(n, alloc, latency))
         IN /\ latency > 0 => c.out # <<>>
            /\ Finish(n, c, "runOnce", 0, "NONE", Air(net, c, mesh))

Tick(n, mesh) == TickUntil(n, mesh, MaxTime)

\* the mesh hands the module a packet from node from; rest is what stays in
\* the air
Receive(n, from, ff, rest, mesh) ==
  \E sess \in Randoms, sec \in Randoms :
    \E alloc \in BuffersFor(Len(handleReceivedProtobuf(Begin(n, MaxAlloc, 0), from, ff, sess, sec).out), mesh) :
      LET c == handleReceivedProtobuf(Begin(n, alloc, 0), from, ff, sess, sec)
      IN Finish(n, c, "rx", from, ff.request_type, Air(rest, c, mesh))

\* the packet of a node that has no position lock and reports no battery level
Blank(from, type) == [FF_init_default EXCEPT !.request_type = type]

\* the packet of a node from, with its position when it has a lock
PeerPacket(from, type, lock) ==
  IF lock
  THEN [request_type |-> type, latitude_i |-> Lat(from), longitude_i |-> Lon(from),
        sats_in_view |-> Sats(from), battery_level |-> Battery(from)]
  ELSE Blank(from, type)

\* a node of senders sends device n a packet; locks: whether it can have a lock
Inject(n, senders, locks) ==
  \E from \in senders \ {n}, type \in RequestTypes, lock \in locks :
    Receive(n, from, PeerPacket(from, type, lock), net, FALSE)

\* a packet in the air reaches device n, once
Deliver(n) ==
  \E p \in net :
    /\ p.to \in {n, NODENUM_BROADCAST} /\ p.from # n
    /\ Receive(n, p.from, p.ff, net \ {p}, TRUE)

\* the mesh drops a packet
Lose ==
  \E p \in net :
    /\ net' = net \ {p}
    /\ last' = NoEffect("lose", 0, p.from, p.ff.request_type)
    /\ UNCHANGED <<dev, hasLock, now, mag>>

\* time passes
AdvanceUntil(horizon) ==
  /\ now + Step <= horizon
  /\ now' = now + Step
  /\ last' = NoEffect("advance", 0, 0, "NONE")
  /\ UNCHANGED <<dev, hasLock, net, mag>>

Advance == AdvanceUntil(MaxTime)

\* the position source of device n gains or loses its lock
GpsLock(n) ==
  /\ hasLock' = [hasLock EXCEPT ![n] = ~@]
  /\ last' = NoEffect("gps", n, 0, "NONE")
  /\ UNCHANGED <<dev, now, net, mag>>

\* ---- one device, with the nodes around it sending it whatever they like.
\* Its user pairs, tracks friends and ends sessions; the position source has
\* no lock, and the packets it receives carry no telemetry.
Dut == CHOOSE n \in Peers : \A m \in Peers : n <= m

SessionRows ==
  [st \in States |->
     CASE st = "MENU_SELECTION" -> {0, 1, 2}
       [] st = "FRIEND_LIST_ACTION" -> {0, 2}
       [] OTHER -> Rows(st)]

Next ==
  \/ LaunchMenu(Dut)
  \/ Input(Dut, SessionRows, FALSE)
  \/ Tick(Dut, FALSE)
  \/ Inject(Dut, Nodes, {FALSE})
  \/ Advance

Spec == Init /\ [][Next]_vars

\* ------------------------------------------------------------------ claims
InSession(m) ==
  m.currentState \in {"TRACKING_TARGET", "BEING_TRACKED", "TRACKING_MENU"}

\* the fields a received packet is said to leave alone
SameSession(c, m) ==
  /\ c.currentState = m.currentState
  /\ c.targetNodeNum = m.targetNodeNum
  /\ c.friends_ = m.friends_
  /\ c.isGpsHighPower = m.isGpsHighPower
  /\ c.gps_update_interval = m.gps_update_interval

Quiet(c) == c.out = <<>> /\ c.saves = 0 /\ c.reloads = 0

\* device Dut handles a packet of the given type from node from
Rx(from, type, alloc, sess, sec) ==
  handleReceivedProtobuf(Begin(Dut, alloc, 0), from, Blank(from, type), sess, sec)

\* C2: while no pairing window is open, a packet of any type from a node that
\* is neither a friend nor the current target leaves the session state, the
\* target, the friend directory and the GPS boost as they were, and no packet
\* is sent in answer.
C2_StrangerIgnored ==
  \A from \in Nodes \ {Dut}, type \in RequestTypes, alloc \in Allocs,
     sess \in Randoms, sec \in Randoms :
    LET m == dev[Dut]
        c == Rx(from, type, alloc, sess, sec)
    IN (~m.pairingWindowOpen /\ findFriend(m, from) < 0 /\ from # m.targetNodeNum)
       => SameSession(c, m) /\ Quiet(c)

\* a session with a friend is running, the window is closed, and the stranger
\* is neither friend nor target: its packets arrive here and change nothing
C2_Witness ==
  /\ InSession(dev[Dut]) /\ dev[Dut].isGpsHighPower
  /\ ~dev[Dut].pairingWindowOpen
  /\ getUsedFriendsCount(dev[Dut]) > 0
  /\ findFriend(dev[Dut], Stranger) < 0 /\ dev[Dut].targetNodeNum # Stranger

\* C3: an END_SESSION from the target, received while tracking or being
\* tracked, tears the session down (IDLE, no target, GPS interval restored)
\* and is not answered; no received END_SESSION is ever answered by one.
C3_EndSessionNotEchoed ==
  \A from \in Nodes \ {Dut}, alloc \in Allocs, sess \in Randoms, sec \in Randoms :
    LET m == dev[Dut]
        c == Rx(from, "END_SESSION", alloc, sess, sec)
    IN /\ \A i \in 1 .. Len(c.out) : c.out[i].ff.request_type # "END_SESSION"
       /\ (from = m.targetNodeNum
           /\ m.currentState \in {"TRACKING_TARGET", "BEING_TRACKED"})
          => /\ c.currentState = "IDLE" /\ c.targetNodeNum = 0
             /\ ~c.isGpsHighPower
             /\ c.gps_update_interval = UserGpsInterval(Dut)
             /\ c.out = <<>>

\* the device has just torn a session down on its target's END_SESSION
C3_Witness ==
  /\ last.op = "rx" /\ last.type = "END_SESSION" /\ last.node = Dut
  /\ last.out = <<>> /\ last.reloads = 1
  /\ dev[Dut].currentState = "IDLE" /\ dev[Dut].targetNodeNum = 0
  /\ ~dev[Dut].isGpsHighPower

\* C8: an ACCEPT that is not awaited (state other than AWAITING_RESPONSE, or
\* not from the target), an END_SESSION outside the tracking states or not
\* from the target, and every REJECT leave state, target, pairing window,
\* friend directory and GPS boost as they were and send nothing.
C8_UnexpectedIgnored ==
  \A from \in Nodes \ {Dut}, alloc \in Allocs, sess \in Randoms, sec \in Randoms :
    LET m == dev[Dut]
        ignored(type) ==
          LET c == Rx(from, type, alloc, sess, sec)
          IN /\ SameSession(c, m) /\ Quiet(c)
             /\ c.pairingWindowOpen = m.pairingWindowOpen
             /\ c.pairingWindowExpiresAt = m.pairingWindowExpiresAt
    IN /\ (m.currentState # "AWAITING_RESPONSE" \/ from # m.targetNodeNum)
          => ignored("ACCEPT")
       /\ (m.currentState \notin {"TRACKING_TARGET", "BEING_TRACKED"}
           \/ from # m.targetNodeNum)
          => ignored("END_SESSION")
       /\ ignored("REJECT")

\* a response is awaited from one friend while another node's ACCEPT can arrive
C8_Witness ==
  /\ dev[Dut].currentState = "AWAITING_RESPONSE"
  /\ dev[Dut].pairingWindowOpen
  /\ dev[Dut].targetNodeNum \in Peers \ {Dut}
  /\ getUsedFriendsCount(dev[Dut]) > 0

TornDown(c) ==
  /\ c.currentState = "IDLE" /\ c.targetNodeNum = 0 /\ ~c.pairingWindowOpen
  /\ ~c.isGpsHighPower /\ c.gps_update_interval = UserGpsInterval(Dut)
  /\ c.ui = <<"REGENERATE_FRAMESET_BACKGROUND">>
  /\ c.reloads <= 1

\* C6: every way a session or a pairing attempt ends - the user ends it, the
\* target's END_SESSION arrives, the pairing window expires - performs the
\* same teardown, once: GPS restored, targetNodeNum 0, window closed, UI
\* notified, state IDLE.
C6_SameTeardown ==
  \A alloc \in Allocs :
    LET m == dev[Dut]
        b == Begin(Dut, alloc, 0)
    IN /\ m.currentState \in {"TRACKING_TARGET", "BEING_TRACKED"}
          => /\ TornDown(handleInputEvent(b, "BACK", 0, FALSE))
             /\ TornDown(handleReceivedProtobuf(b, m.targetNodeNum,
                           Blank(m.targetNodeNum, "END_SESSION"), 1, 1))
       /\ m.currentState = "TRACKING_MENU"
          => TornDown(handleInputEvent(b, "SELECT", 0, FALSE))
       /\ PairingWindowExpired(b) => TornDown(runOnce(b))

C9_RedeliveryIdempotent ==
  \A from \in Nodes \ {Dut}, type \in RequestTypes, alloc \in Allocs,
     again \in Allocs, sess \in Randoms, sec \in Randoms :
    LET ff == Blank(from, type)
        c1 == handleReceivedProtobuf(Begin(Dut, alloc, 0), from, ff, sess, sec)
        c2 == handleReceivedProtobuf(Ctx(Module(c1), Dut, again, 0), from, ff, sess, sec)
    IN /\ [Module(c2) EXCEPT !.lastSentPacketTime = 0]
            = [Module(c1) EXCEPT !.lastSentPacketTime = 0]
       /\ c2.saves = 0 /\ c2.reloads = 0

\* a pairing REQUEST has just been served: a friend record was written and
\* saved, the GPS boosted, and the same REQUEST can arrive again
C9_Witness ==
  /\ last.op = "rx" /\ last.type = "REQUEST" /\ last.saves = 1 /\ last.reloads = 1
  /\ dev[Dut].currentState = "BEING_TRACKED"
  /\ dev[Dut].targetNodeNum = last.from
  /\ findFriend(dev[Dut], last.from) >= 0

\* ---- the same device, whose position source gains and loses its lock
NextFix ==
  \/ LaunchMenu(Dut)
  \/ Input(Dut, SessionRows, FALSE)
  \/ Tick(Dut, FALSE)
  \/ Inject(Dut, Peers, {FALSE})
  \/ GpsLock(Dut)
  \/ Advance

SpecFix == Init /\ [][NextFix]_vars

\* C10: every packet the module builds while its position source has no lock
\* carries latitude 0 and longitude 0, whatever its type.
C10_NoFixZeroPosition ==
  ~last.lock =>
    \A i \in 1 .. Len(last.out) :
      last.out[i].ff.latitude_i = 0 /\ last.out[i].ff.longitude_i = 0

\* the device had a lock and sent its position to a friend, lost the lock, and
\* has just sent a beacon to its target without it
C10_Witness ==
  /\ ~last.lock /\ last.op = "runOnce" /\ last.out # <<>>
  /\ last.out[1].ff.request_type = "NONE"
  /\ last.out[1].ff.latitude_i = 0
  /\ dev[Dut].lastBackgroundUpdateTime # 0

\* ---- two devices within radio range of each other, whose users pair them
\* and end sessions; every packet one of them sends reaches the other once
PairRows ==
  [st \in States |->
     CASE st = "MENU_SELECTION" -> {1}
       [] OTHER -> Rows(st)]

NextPair ==
  \/ \E n \in Peers : LaunchMenu(n)
  \/ \E n \in Peers : Input(n, PairRows, TRUE)
  \/ \E n \in Peers : Tick(n, TRUE)
  \/ \E n \in Peers : Deliver(n)
  \/ Advance

SpecPair == Init /\ [][NextPair]_vars

\* C1: a pairing attempt of two peers ends for both alike: once every pairing
\* window has closed and no packet is on its way, either both hold a friend
\* record of the other and a peer in a session with the other finds the other
\* in a session with it, or neither does - an attempt whose window expired
\* leaves no friend record and no session behind.
C1_BothOrNeither ==
  (net = {} /\ \A n \in Peers : ~dev[n].pairingWindowOpen)
  => \A a \in Peers, b \in Peers :
       a # b =>
         /\ findFriend(dev[a], b) >= 0 => findFriend(dev[b], a) >= 0
         /\ (InSession(dev[a]) /\ dev[a].targetNodeNum = b)
            => (InSession(dev[b]) /\ dev[b].targetNodeNum = a)

\* C5: in the handshake, the ACCEPT with which a peer answers a device's
\* pairing broadcast, arriving while the device still awaits the response
\* with its window open and no REQUEST on its way, makes the device persist a
\* friend record of the peer and leave the pairing state, as the peer has done.
C5_AcceptCompletesHandshake ==
  \A p \in net, sess \in Randoms, sec \in Randoms :
    (/\ p.ff.request_type = "ACCEPT" /\ p.to \in Peers
     /\ dev[p.to].currentState = "AWAITING_RESPONSE"
     /\ dev[p.to].pairingWindowOpen
     /\ findFriend(dev[p.from], p.to) >= 0
     /\ \A q \in net : q.ff.request_type # "REQUEST")
    => LET c == handleReceivedProtobuf(Begin(p.to, MaxAlloc, 0), p.from, p.ff, sess, sec)
       IN /\ findFriend(c, p.from) >= 0
          /\ c.currentState \in {"TRACKING_TARGET", "BEING_TRACKED"}
          /\ ~c.pairingWindowOpen

\* ---- a device that starts with the friends it had stored and sits idle for
\* minutes, its user opening and leaving the menu, its lock coming and going
MaxIdleSteps == 5
MaxStored == 2
IdleHorizon == StartTime + MaxIdleSteps * Step

\* what loadFriends finds in storage after k friends were saved
StoredFriends(n, k) ==
  [i \in Slots |->
     IF i < k
     THEN [FriendRecord_init EXCEPT !.used = TRUE, !.node = n + 1 + i,
                                    !.session_id = 1, !.secret = 1]
     ELSE FriendRecord_init]

InitBackground ==
  /\ \E k \in 0 .. MaxStored :
       dev = [n \in Peers |-> [ModuleInit(n) EXCEPT !.friends_ = StoredFriends(n, k)]]
  /\ hasLock \in [Peers -> BOOLEAN]
  /\ now = StartTime
  /\ net = {}
  /\ last = NoEffect("init", 0, 0, "NONE")
  /\ mag = MagnetometerInit(TRUE)

MenuRows ==
  [st \in States |-> IF st = "MENU_SELECTION" THEN {0} ELSE Rows(st)]

NextBackground ==
  \/ LaunchMenu(Dut)
  \/ Input(Dut, MenuRows, FALSE)
  \/ TickUntil(Dut, FALSE, IdleHorizon)
  \/ GpsLock(Dut)
  \/ AdvanceUntil(IdleHorizon)

SpecBackground == InitBackground /\ [][NextBackground]_vars

\* the NONE packets of one background update, in slot order from slot i on
RECURSIVE FanOutPackets(_, _)
FanOutPackets(c, i) ==
  IF i >= MAX_FRIENDS THEN <<>>
  ELSE (IF c.friends_[i].used
        THEN <<Packet(c, c.friends_[i].node, "NONE", 0)>> ELSE <<>>)
       \o FanOutPackets(c, i + 1)

\* C11: on an idle device with a position lock and friends, a tick sends the
\* background update only if none was sent yet or more than
\* BACKGROUND_UPDATE_INTERVAL has passed since the last one, whose time it then
\* records; the update is one NONE packet per in-use friend, in slot order (as
\* far as the transport has buffers), and any other tick of the idle device
\* sends nothing and leaves the recorded time alone, as does opening the menu.
C11_BackgroundFanOutOncePerInterval ==
  \A alloc \in Allocs, latency \in {0, Step} :
    LET m == dev[Dut]
        b == Begin(Dut, alloc, latency)
        c == runOnce(b)
        all == FanOutPackets(b, 0)
        elapsed == U32(now - m.lastBackgroundUpdateTime)
    IN (m.currentState = "IDLE" /\ hasLock[Dut] /\ getUsedFriendsCount(m) > 0)
       => /\ (m.lastBackgroundUpdateTime = 0
              \/ elapsed > Ms(BACKGROUND_UPDATE_INTERVAL * 1000))
             => /\ c.lastBackgroundUpdateTime = now
                /\ Len(all) = getUsedFriendsCount(m)
                /\ c.out = SubSeq(all, 1, IF alloc < Len(all) THEN alloc ELSE Len(all))
          /\ (m.lastBackgroundUpdateTime # 0
              /\ elapsed <= Ms(BACKGROUND_UPDATE_INTERVAL * 1000))
             => /\ c.out = <<>>
                /\ c.lastBackgroundUpdateTime = m.lastBackgroundUpdateTime
          /\ launchMenu(b).lastBackgroundUpdateTime = m.lastBackgroundUpdateTime
          /\ c.currentState = "IDLE"

\* the second background update has just gone out to two friends, more than
\* an interval after the first
C11_Witness ==
  /\ last.op = "runOnce" /\ Len(last.out) = 2 /\ last.lock
  /\ last.out[1].to # last.out[2].to
  /\ dev[Dut].currentState = "IDLE"
  /\ dev[Dut].lastBackgroundUpdateTime = now
  /\ now > StartTime + Ms(BACKGROUND_UPDATE_INTERVAL * 1000)

\* C12: a tick of a device that has no position lock, or no friend, or is
\* not IDLE sends no background update: it leaves the time of the last update
\* alone and sends nothing but the beacon of a session to its target.
C12_NoFanOutWithoutFixFriendsIdle ==
  \A alloc \in Allocs, latency \in {0, Step} :
    LET m == dev[Dut]
        c == runOnce(Begin(Dut, alloc, latency))
    IN (~hasLock[Dut] \/ getUsedFriendsCount(m) = 0 \/ m.currentState # "IDLE")
       => /\ c.lastBackgroundUpdateTime = m.lastBackgroundUpdateTime
          /\ m.currentState \notin {"TRACKING_TARGET", "BEING_TRACKED"} => c.out = <<>>
          /\ \A i \in 1 .. Len(c.out) : c.out[i].to = m.targetNodeNum

\* an idle device with a friend, whose first update is due, has no lock
C12_Witness ==
  /\ dev[Dut].currentState = "IDLE" /\ ~hasLock[Dut]
  /\ getUsedFriendsCount(dev[Dut]) > 0
  /\ dev[Dut].lastBackgroundUpdateTime = 0
  /\ ~dev[Dut].isGpsHighPower /\ dev[Dut].targetNodeNum = 0

\* ---- a device that boots with whatever interval its configuration holds,
\* and then pairs and tracks
MaxPersisted == 4
PersistedIntervals == (0 .. MaxPersisted) \cup {DEFAULT_GPS_INTERVAL}

InitBoot ==
  /\ \E g \in PersistedIntervals :
       dev = [n \in Peers |-> [ModuleInit(n) EXCEPT !.gps_update_interval = g]]
  /\ hasLock = [n \in Peers |-> FALSE]
  /\ now = StartTime
  /\ net = {}
  /\ last = NoEffect("init", 0, 0, "NONE")
  /\ mag = MagnetometerInit(TRUE)

\* the firmware sets the module up, once, before anything else runs
Setup(n) ==
  /\ last.op = "init"
  /\ LET c == setup(Begin(n, 0, 0))
     IN /\ dev' = [dev EXCEPT ![n] = Module(c)]
        /\ last' = Effect(c, "setup", 0, "NONE")
  /\ UNCHANGED <<hasLock, now, net, mag>>

NextBoot ==
  \/ Setup(Dut)
  \/ /\ last.op # "init"
     /\ \/ LaunchMenu(Dut)
        \/ Input(Dut, SessionRows, FALSE)
        \/ Tick(Dut, FALSE)
        \/ Inject(Dut, Peers, {FALSE})

SpecBoot == InitBoot /\ [][NextBoot]_vars

\* C13: setup() replaces a persisted sampling interval that is above 0 and at
\* most HIGH_GPS_INTERVAL by DEFAULT_GPS_INTERVAL, reloading the
\* configuration once, and leaves every other interval (0, or above the
\* threshold) as it is; so right after setup the interval is never a boosted
\* one.
C13_SetupSelfHeal ==
  LET g == dev[Dut].gps_update_interval
      c == setup(Begin(Dut, 0, 0))
  IN /\ last.op = "init"
        => /\ (g > 0 /\ g <= HIGH_GPS_INTERVAL)
              => c.gps_update_interval = DEFAULT_GPS_INTERVAL /\ c.reloads = 1
           /\ (g = 0 \/ g > HIGH_GPS_INTERVAL)
              => c.gps_update_interval = g /\ c.reloads = 0
           /\ [Module(c) EXCEPT !.gps_update_interval = g] = dev[Dut]
     /\ last.op = "setup"
        => /\ g \notin 1 .. HIGH_GPS_INTERVAL
           /\ ~dev[Dut].isGpsHighPower
           /\ last.reloads = 1 => g = DEFAULT_GPS_INTERVAL

\* setup has just healed an interval that a crash left boosted
C13_Witness ==
  /\ last.op = "setup" /\ last.reloads = 1
  /\ dev[Dut].gps_update_interval = DEFAULT_GPS_INTERVAL
  /\ dev[Dut].currentState = "IDLE"

\* ---- the friend directory of a device, filled and emptied at will
FriendIds == (Dut + 1) .. (Dut + 1 + MAX_FRIENDS)

\* the nodes that can be stored next: a friend again, or a node that is not
\* a friend. Node ids are only compared for equality, so one new node stands
\* for all: the one named after the slot it will get, or the last of
\* FriendIds when that one is a friend already.
Storable(m) ==
  LET named == Dut + 1 + UpsertSlot(m, 0)
  IN {node \in FriendIds : findFriend(m, node) >= 0}
       \cup {IF findFriend(m, named) < 0 THEN named ELSE Dut + 1 + MAX_FRIENDS}

\* a pairing stores node as a friend
Upsert(n) ==
  \E node \in Storable(dev[n]) :
    Finish(n, upsertFriend(Begin(n, 0, 0), node, 1, 1), "upsertFriend", node, "NONE", net)

\* the user removes the friend on row listIdx of the list
Remove(n) ==
  \E listIdx \in 0 .. MAX_FRIENDS + 1 :
    Finish(n, removeFriendAt(Begin(n, 0, 0), listIdx), "removeFriendAt", listIdx, "NONE", net)

NextDir ==
  \/ Upsert(Dut)
  \/ Remove(Dut)

SpecDir == Init /\ [][NextDir]_vars

\* session ids and secrets a pairing can draw
MaxSession == 2
SessionData == 1 .. MaxSession

InUse(m) == {i \in Slots : m.friends_[i].used}

\* C14: upsertFriend called twice for one node, with any session data, leaves
\* exactly one in-use record of that node, in the slot the first call chose,
\* holding the session id and secret of the second call; the number of in-use
\* records is the one after the first call and no other slot changes.
C14_UpsertIdempotent ==
  \A node \in FriendIds, s1 \in SessionData, k1 \in SessionData,
     s2 \in SessionData, k2 \in SessionData :
    LET c1 == upsertFriend(Begin(Dut, 0, 0), node, s1, k1)
        c2 == upsertFriend(Ctx(Module(c1), Dut, 0, 0), node, s2, k2)
        at == findFriend(c2, node)
    IN /\ Cardinality({i \in InUse(c2) : c2.friends_[i].node = node}) = 1
       /\ at >= 0 /\ at = findFriend(c1, node)
       /\ c2.friends_[at].session_id = s2 /\ c2.friends_[at].secret = k2
       /\ getUsedFriendsCount(c2) = getUsedFriendsCount(c1)
       /\ \A i \in Slots \ {at} : c2.friends_[i] = c1.friends_[i]

\* a friend between two others has just been stored
C14_Witness ==
  /\ last.op = "upsertFriend" /\ last.saves = 1
  /\ findFriend(dev[Dut], last.from) = 1
  /\ InUse(dev[Dut]) = {0, 1, 2}

\* C15: findFriend(node) returns the slot of the in-use record of node when
\* there is one, and -1 when there is none, whatever was stored and removed
\* before.
C15_FindIffInUse ==
  \A node \in FriendIds \cup {0} :
    LET m == dev[Dut]
        i == findFriend(m, node)
    IN /\ i >= 0 <=> (\E s \in InUse(m) : m.friends_[s].node = node)
       /\ i >= 0 => (i \in InUse(m) /\ m.friends_[i].node = node)
       /\ i < 0 => i = 0 - 1

\* a friend was removed, its record is still in its slot, and others remain
C15_Witness ==
  /\ last.op = "removeFriendAt"
  /\ \E s \in Slots \ InUse(dev[Dut]) :
       /\ dev[Dut].friends_[s].node \in FriendIds
       /\ findFriend(dev[Dut], dev[Dut].friends_[s].node) < 0
  /\ getUsedFriendsCount(dev[Dut]) >= 2

\* C16: the directory never holds more than MAX_FRIENDS in-use records, and
\* no two in-use records have the same node id.
C16_DirectoryBoundedUnique ==
  LET m == dev[Dut]
  IN /\ getUsedFriendsCount(m) <= MAX_FRIENDS
     /\ \A i \in InUse(m), j \in InUse(m) :
          m.friends_[i].node = m.friends_[j].node => i = j

\* the directory is full, and a friend in it has just been stored again
C16_Witness ==
  /\ getUsedFriendsCount(dev[Dut]) = MAX_FRIENDS
  /\ last.op = "upsertFriend"
  /\ findFriend(dev[Dut], last.from) = MAX_FRIENDS - 1

\* C17: upsertFriend of a node that is not in the directory always stores it:
\* in the first free slot if there is one, else in slot 0, whose former
\* occupant is then no longer found; the record holds the node, session id and
\* secret given, every other slot is unchanged, and the directory is saved.
C17_UpsertAlwaysSucceeds ==
  \A node \in FriendIds, s \in SessionData, k \in SessionData :
    LET m == dev[Dut]
        c == upsertFriend(Begin(Dut, 0, 0), node, s, k)
        free == Slots \ InUse(m)
        at == findFriend(c, node)
    IN findFriend(m, node) < 0
       => /\ at >= 0
          /\ free # {} => (at \in free /\ \A j \in free : at <= j)
          /\ free = {} => (at = 0 /\ findFriend(c, m.friends_[0].node) < 0)
          /\ c.friends_[at].used /\ c.friends_[at].node = node
          /\ c.friends_[at].session_id = s /\ c.friends_[at].secret = k
          /\ \A i \in Slots \ {at} : c.friends_[i] = m.friends_[i]
          /\ c.saves = 1

\* a ninth node has just taken slot 0 of a full directory
C17_Witness ==
  /\ last.op = "upsertFriend" /\ last.from = Dut + 1 + MAX_FRIENDS
  /\ findFriend(dev[Dut], last.from) = 0
  /\ getUsedFriendsCount(dev[Dut]) = MAX_FRIENDS

\* C18: removeFriendAt on a valid row wipes the record: node id, session id,
\* secret and cached telemetry of the slot are cleared, not only the in-use
\* flag, in RAM and so in the blob that saveFriends writes from it.
C18_RemoveWipesRecord ==
  \A listIdx \in 1 .. MAX_FRIENDS :
    LET m == dev[Dut]
        slot == getFriendSlotByListIndex(m, listIdx)
        c == removeFriendAt(Begin(Dut, 0, 0), listIdx)
    IN slot >= 0 => (c.friends_[slot] = FriendRecord_init /\ c.saves = 1)

\* the GPS of c is boosted, by this run if that of m was not
Boosted(c, m) ==
  /\ c.isGpsHighPower /\ c.gps_update_interval = HIGH_GPS_INTERVAL
  /\ IF m.isGpsHighPower
     THEN c.reloads = 0 /\ c.originalGpsUpdateInterval = m.originalGpsUpdateInterval
     ELSE c.reloads = 1 /\ c.originalGpsUpdateInterval = m.gps_update_interval

\* the friend record of from after a packet of from was served: written with
\* the drawn session data and saved if from was unknown, else the directory
\* as it was
FriendKept(c, m, from, sess, sec) ==
  LET at == findFriend(c, from)
  IN /\ at >= 0
     /\ IF findFriend(m, from) >= 0
        THEN c.friends_ = m.friends_ /\ c.saves = 0
        ELSE /\ c.friends_[at].session_id = sess /\ c.friends_[at].secret = sec
             /\ \A i \in Slots \ {at} : c.friends_[i] = m.friends_[i]
             /\ c.saves = 1

\* a REQUEST that is served: in any state, from a friend or with the window open
Served(m, from) == findFriend(m, from) >= 0 \/ m.pairingWindowOpen

\* the session a served REQUEST of from starts
TrackedBy(c, m, from, sess, sec) ==
  /\ c.currentState = "BEING_TRACKED" /\ c.targetNodeNum = from
  /\ ~c.pairingWindowOpen
  /\ FriendKept(c, m, from, sess, sec)
  /\ Boosted(c, m)

\* C19 (as the code has it): a REQUEST received in any state from a friend, or
\* from any sender while the pairing window is open, makes the device
\* BEING_TRACKED with the sender as target, closes the window, creates and
\* saves a friend record if the sender was unknown, boosts the GPS, and is
\* answered with one packet, an ACCEPT to the sender carrying the device's
\* telemetry (as far as the router has a buffer); no NONE follows it.
C19_RequestServedWithAccept ==
  \A from \in Nodes \ {Dut}, alloc \in Allocs, sess \in Randoms, sec \in Randoms :
    LET m == dev[Dut]
        b == Begin(Dut, alloc, 0)
        c == Rx(from, "REQUEST", alloc, sess, sec)
    IN Served(m, from)
       => /\ TrackedBy(c, m, from, sess, sec)
          /\ c.out = IF alloc > 0 THEN <<Packet(b, from, "ACCEPT", 0)>> ELSE <<>>

\* a REQUEST of an unknown node was served inside the pairing window: the
\* device is tracked by it, has saved it, boosted the GPS and sent its ACCEPT
C19_Witness ==
  /\ last.op = "rx" /\ last.type = "REQUEST"
  /\ last.saves = 1 /\ last.reloads = 1
  /\ Len(last.out) = 1 /\ last.out[1].ff.request_type = "ACCEPT"
  /\ last.out[1].to = last.from
  /\ dev[Dut].currentState = "BEING_TRACKED" /\ dev[Dut].targetNodeNum = last.from
  /\ findFriend(dev[Dut], last.from) >= 0

\* C19 (as stated): ... and the served REQUEST is answered with an ACCEPT
\* followed immediately by a NONE telemetry packet, both to the sender, when
\* the router has buffers for both.
C19_RequestServedAcceptThenNone ==
  \A from \in Nodes \ {Dut}, sess \in Randoms, sec \in Randoms :
    LET m == dev[Dut]
        b == Begin(Dut, MaxAlloc, 0)
        c == Rx(from, "REQUEST", MaxAlloc, sess, sec)
    IN Served(m, from)
       => /\ TrackedBy(c, m, from, sess, sec)
          /\ c.out = <<Packet(b, from, "ACCEPT", 0), Packet(b, from, "NONE", 0)>>

\* what an awaited ACCEPT of from does besides any reply
TrackingStarted(c, m, from, sess, sec) ==
  /\ c.currentState = "TRACKING_TARGET" /\ c.targetNodeNum = from
  /\ ~c.pairingWindowOpen
  /\ FriendKept(c, m, from, sess, sec)
  /\ Boosted(c, m)

\* C20: an ACCEPT received in AWAITING_RESPONSE from targetNodeNum makes the
\* device TRACKING_TARGET, saves a friend record for the sender if there was
\* none, boosts the GPS, closes the pairing window, and is answered with a
\* NONE telemetry packet to the sender (as far as the router has a buffer).
C20_AcceptAnsweredWithNone ==
  \A from \in Nodes \ {Dut}, sess \in Randoms, sec \in Randoms :
    LET m == dev[Dut]
        b == Begin(Dut, MaxAlloc, 0)
        c == Rx(from, "ACCEPT", MaxAlloc, sess, sec)
    IN (m.currentState = "AWAITING_RESPONSE" /\ from = m.targetNodeNum)
       => /\ TrackingStarted(c, m, from, sess, sec)
          /\ c.out = <<Packet(b, from, "NONE", 0)>>

\* the part of C20 that the code keeps: everything but the reply
C20_AcceptStartsTracking ==
  \A from \in Nodes \ {Dut}, alloc \in Allocs, sess \in Randoms, sec \in Randoms :
    LET m == dev[Dut]
        c == Rx(from, "ACCEPT", alloc, sess, sec)
    IN (m.currentState = "AWAITING_RESPONSE" /\ from = m.targetNodeNum)
       => TrackingStarted(c, m, from, sess, sec) /\ c.out = <<>>

\* the ACCEPT of the friend asked for has just been taken: tracking has
\* started, the GPS is boosted, and nothing was sent
C20_Witness ==
  /\ last.op = "rx" /\ last.type = "ACCEPT"
  /\ last.reloads = 1 /\ last.out = <<>>
  /\ dev[Dut].currentState = "TRACKING_TARGET" /\ dev[Dut].targetNodeNum = last.from
  /\ findFriend(dev[Dut], last.from) >= 0

\* the module m once the telemetry ff of node from is cached at the time t:
\* in the in-use directory record of from, and in the live session cache when
\* from is the target
Cached(m, from, ff, t) ==
  LET m1 == [m EXCEPT !.friends_ =
               [i \in Slots |->
                  IF m.friends_[i].used /\ m.friends_[i].node = from
                  THEN [m.friends_[i] EXCEPT !.last_data = ff, !.last_heard_time = t]
                  ELSE m.friends_[i]]]
  IN IF from = m.targetNodeNum
     THEN [m1 EXCEPT !.lastFriendData = ff, !.lastFriendPacketTime = t]
     ELSE m1

\* C21: a received NONE changes nothing but caches: the telemetry and the
\* time go into the directory record if the sender is a friend in use, into
\* lastFriendData / lastFriendPacketTime if the sender is targetNodeNum, and
\* nowhere otherwise; state, target, pairing window and GPS boost stay, nothing
\* is sent, saved or reloaded.
C21_NoneOnlyCaches ==
  \A from \in Nodes \ {Dut}, lock \in BOOLEAN, alloc \in Allocs :
    LET m == dev[Dut]
        ff == PeerPacket(from, "NONE", lock)
        c == handleReceivedProtobuf(Begin(Dut, alloc, 0), from, ff, 1, 1)
    IN /\ Module(c) = Cached(m, from, ff, now)
       /\ Quiet(c) /\ c.ui = <<>>

\* a NONE of the target, which is a friend, was cached during its session
C21_Witness ==
  /\ last.op = "rx" /\ last.type = "NONE"
  /\ dev[Dut].currentState \in {"TRACKING_TARGET", "BEING_TRACKED"}
  /\ dev[Dut].targetNodeNum = last.from
  /\ dev[Dut].lastFriendPacketTime = now /\ now > StartTime
  /\ \E i \in InUse(dev[Dut]) :
       /\ dev[Dut].friends_[i].node = last.from
       /\ dev[Dut].friends_[i].last_heard_time = now

\* ---- the same device, whose menu entry point is called whatever the state:
\* launchMenu has no guard of its own
LaunchMenuAnytime(n) ==
  Finish(n, launchMenu(Begin(n, 0, 0)), "launchMenu", 0, "NONE", net)

NextMenu ==
  \/ LaunchMenuAnytime(Dut)
  \/ Input(Dut, SessionRows, FALSE)
  \/ Tick(Dut, FALSE)
  \/ Inject(Dut, Peers, {FALSE})
  \/ Advance

SpecMenu == Init /\ [][NextMenu]_vars

\* C22: outside the tracking states (TRACKING_TARGET, BEING_TRACKED and the
\* menu shown over them) the GPS is not boosted: isGpsHighPower is false and
\* the sampling interval is the user's, not HIGH_GPS_INTERVAL.
C22_BoostConfinedToSessions ==
  ~InSession(dev[Dut])
    => /\ ~dev[Dut].isGpsHighPower
       /\ dev[Dut].gps_update_interval = UserGpsInterval(Dut)

\* every handler run the device can make now, twice: <<c0, cN>> with no free
\* buffer and with MaxAlloc free buffers
HandlerRuns ==
  {<<handleReceivedProtobuf(Begin(Dut, 0, 0), from, Blank(from, type), 1, 1),
     handleReceivedProtobuf(Begin(Dut, MaxAlloc, 0), from, Blank(from, type), 1, 1)>> :
     from \in Peers \ {Dut}, type \in RequestTypes}
  \cup
  {<<handleInputEvent(Begin(Dut, 0, 0), ev, row, FALSE),
     handleInputEvent(Begin(Dut, MaxAlloc, 0), ev, row, FALSE)>> :
     ev \in InputEvents, row \in Rows(dev[Dut].currentState)}

TickRuns == {<<runOnce(Begin(Dut, 0, 0)), runOnce(Begin(Dut, MaxAlloc, 0))>>}

\* the run c0 without buffers did all that the run cN with buffers did, but
\* send and record the time of sending
Completes(c0, cN) ==
  /\ [Module(c0) EXCEPT !.lastSentPacketTime = 0]
       = [Module(cN) EXCEPT !.lastSentPacketTime = 0]
  /\ c0.saves = cN.saves /\ c0.reloads = cN.reloads /\ c0.ui = cN.ui
  /\ c0.out = <<>>

\* the tick that follows the run c, with buffers free again
NextTick(c) == runOnce(Ctx(Module(c), Dut, MaxAlloc, 0))

\* send leaves the module alone when the router has no buffer
DropLeavesModule ==
  \A dst \in Peers \cup {NODENUM_BROADCAST}, type \in RequestTypes, latency \in {0, Step} :
    LET c == sendFriendFinderPacket(Begin(Dut, 0, latency), dst, type, 0)
    IN Module(c) = dev[Dut] /\ c.out = <<>>

Resent(c0, cN) ==
  {i \in 1 .. Len(cN.out) :
     \E j \in 1 .. Len(NextTick(c0).out) :
       /\ NextTick(c0).out[j].to = cN.out[i].to
       /\ NextTick(c0).out[j].ff.request_type = cN.out[i].ff.request_type}

\* C23 (as the code has it): without a free buffer sendFriendFinderPacket
\* changes nothing in the module, and the handler that asked for the send
\* still does everything else it does with a buffer. A dropped REQUEST,
\* ACCEPT or END_SESSION and a dropped background fan-out are not sent again
\* by the next tick; a dropped session beacon is: lastSentPacketTime was not
\* written, so the beacon is still due and the next tick sends it.
C23_DropKeepsBeaconDue ==
  /\ DropLeavesModule
  /\ \A r \in HandlerRuns \cup TickRuns : Completes(r[1], r[2])
  /\ \A r \in HandlerRuns :
       \A j \in 1 .. Len(NextTick(r[1]).out) :
         NextTick(r[1]).out[j].ff.request_type = "NONE"
  /\ \A r \in TickRuns :
       NextTick(r[1]).out = IF dev[Dut].currentState = "IDLE" THEN <<>> ELSE r[2].out

\* a tick of a session had its beacon due and no buffer: nothing was sent and
\* the beacon is due still
C23_Witness ==
  /\ last.op = "runOnce" /\ last.out = <<>>
  /\ dev[Dut].currentState \in {"TRACKING_TARGET", "BEING_TRACKED"}
  /\ BeaconDue(Begin(Dut, 0, 0))
  /\ runOnce(Begin(Dut, MaxAlloc, 0)).out # <<>>

\* C23 (as stated): ... and no dropped message is sent again by the tick
\* that follows.
C23_DroppedNeverReattempted ==
  /\ DropLeavesModule
  /\ \A r \in HandlerRuns \cup TickRuns :
       Completes(r[1], r[2]) /\ Resent(r[1], r[2]) = {}

\* ---- the same device over unbounded time, with a transport that always has
\* buffers and a peer that asks, accepts and ends. The thread runs every 50 ms
\* (runOnce returns 50), far more often than anything else happens: the user's
\* inputs and the peer's packets come, and the clock of the model moves on
\* (half of its 32-bit range at a time), once the thread has nothing left to
\* do at the present time.
TickSure(n) ==
  Finish(n, runOnce(Begin(n, MaxAlloc, 0)), "runOnce", 0, "NONE", net)

Settled ==
  LET c == runOnce(Begin(Dut, MaxAlloc, 0))
  IN Module(c) = dev[Dut] /\ c.out = <<>>

TimePasses ==
  /\ now' = U32(now + Wrap32 \div 2)
  /\ last' = NoEffect("advance", 0, 0, "NONE")
  /\ UNCHANGED <<dev, hasLock, net, mag>>

Elapse == Settled /\ TimePasses

\* a peer sends device n a packet of the handshake
Handshake(n) ==
  \E from \in Peers \ {n}, type \in {"REQUEST", "ACCEPT", "END_SESSION"} :
    Receive(n, from, Blank(from, type), net, FALSE)

NextBeacon ==
  \/ TickSure(Dut)
  \/ Settled /\ LaunchMenu(Dut)
  \/ Settled /\ Input(Dut, SessionRows, FALSE)
  \/ Settled /\ Handshake(Dut)
  \/ Elapse

\* Time never stops; as it passes only once the thread has run, the thread
\* runs again and again.
SpecBeacon ==
  Init /\ [][NextBeacon]_vars /\ WF_vars(TimePasses)

\* the device is in one of the two states whose ticks beacon
Beaconing(m) ==
  m.currentState \in {"TRACKING_TARGET", "BEING_TRACKED"} /\ m.targetNodeNum # 0

\* the last thing that happened is a tick that sent NONE to the target
BeaconSent ==
  /\ last.op = "runOnce" /\ last.out # <<>>
  /\ \A i \in 1 .. Len(last.out) :
       /\ last.out[i].ff.request_type = "NONE"
       /\ last.out[i].to = dev[Dut].targetNodeNum

\* a tick with a buffer sends NONE to the target when, and only when, more
\* than UPDATE_INTERVAL has passed since lastSentPacketTime, in both roles
BeaconWhenDue ==
  LET m == dev[Dut]
      c == runOnce(Begin(Dut, MaxAlloc, 0))
  IN Beaconing(m)
     => IF U32(now - m.lastSentPacketTime) > Ms(UPDATE_INTERVAL * 1000)
        THEN /\ c.out = <<Packet(Begin(Dut, MaxAlloc, 0), m.targetNodeNum, "NONE", 0)>>
             /\ c.lastSentPacketTime = now
        ELSE c.out = <<>>

\* C24: in TRACKING_TARGET and in BEING_TRACKED alike, a tick on which more
\* than UPDATE_INTERVAL has passed since the last transmission sends a NONE to
\* the target; with ticks that keep coming, time that keeps passing and a
\* transport that has buffers, a device that stays in a session sends its
\* target beacons again and again.
C24_BeaconsInfinitelyOften ==
  /\ []BeaconWhenDue
  /\ []<>(~Beaconing(dev[Dut]) \/ last.op = "advance")
  /\ []<>(~Beaconing(dev[Dut]) \/ BeaconSent)

\* a tracker has just sent a beacon to its target
C24_Witness ==
  /\ dev[Dut].currentState = "TRACKING_TARGET"
  /\ BeaconSent
  /\ dev[Dut].lastSentPacketTime = now /\ now # StartTime

\* what millis() can have advanced by between the reading of the tick time
\* and the recording of lastSentPacketTime: nothing, one unit of the clock,
\* or a whole step
Latencies == {0, 1, Step}

\* the beacons a tick sends when it starts now and has alloc buffers
Beacons(alloc, latency) ==
  LET c == runOnce(Begin(Dut, alloc, latency))
  IN {i \in 1 .. Len(c.out) :
        /\ c.out[i].ff.request_type = "NONE"
        /\ c.out[i].to = dev[Dut].targetNodeNum}

\* C25: in a tracking state a tick sends a beacon only when more than
\* UPDATE_INTERVAL has passed since lastSentPacketTime, and never two, in
\* either role and whatever the clock advances by while the packet is sent.
C25_OneBeaconPerInterval ==
  \A alloc \in Allocs, latency \in Latencies :
    dev[Dut].currentState \in {"TRACKING_TARGET", "BEING_TRACKED"}
    => /\ Cardinality(Beacons(alloc, latency)) <= 1
       /\ Beacons(alloc, latency) # {}
            => U32(now - dev[Dut].lastSentPacketTime) > Ms(UPDATE_INTERVAL * 1000)

\* the same for the tracker alone
C25_TrackerOneBeacon ==
  \A alloc \in Allocs, latency \in Latencies :
    dev[Dut].currentState = "TRACKING_TARGET"
    => /\ Cardinality(Beacons(alloc, latency)) <= 1
       /\ Beacons(alloc, latency) # {}
            => U32(now - dev[Dut].lastSentPacketTime) > Ms(UPDATE_INTERVAL * 1000)

\* a tracker's tick has sent its one beacon
C25_Witness ==
  /\ last.op = "runOnce" /\ Len(last.out) = 1
  /\ last.out[1].ff.request_type = "NONE"
  /\ dev[Dut].currentState = "TRACKING_TARGET"
  /\ last.out[1].to = dev[Dut].targetNodeNum

\* the tick that runs d units of the clock from now, with buffers free
TickAfter(d) ==
  runOnce([Begin(Dut, MaxAlloc, 0) EXCEPT !.tNow = U32(now + d), !.tSend = U32(now + d)])

Discovery(c, hopLimit) == Packet(c, NODENUM_BROADCAST, "REQUEST", hopLimit)

\* the user has just started discovery: the window is open and the broadcast
\* REQUEST has gone out
DiscoveryStarted ==
  /\ last.op = "SELECT" /\ last.out = <<Discovery(Begin(Dut, 0, 0), 1)>>
  /\ dev[Dut].currentState = "AWAITING_RESPONSE" /\ dev[Dut].pairingWindowOpen
  /\ dev[Dut].pairingWindowExpiresAt = U32(now + Ms(PAIRING_WINDOW_MS))

\* 'Start Pairing' is row 1 of the menu
StartPairing(alloc) == handleInputEvent(Begin(Dut, alloc, 0), "SELECT", 1, FALSE)

\* C26: the discovery REQUEST goes to the broadcast address with hop limit 1,
\* is sent again every 5 s for as long as the pairing window is open, and is
\* not sent once the window has closed.
C26_DiscoveryRebroadcast ==
  /\ dev[Dut].currentState = "MENU_SELECTION"
       => StartPairing(MaxAlloc).out = <<Discovery(Begin(Dut, 0, 0), 1)>>
  /\ DiscoveryStarted
       => /\ \A k \in 1 .. 5 :
               \E i \in 1 .. Len(TickAfter(k * Ms(5 * 1000)).out) :
                 TickAfter(k * Ms(5 * 1000)).out[i] = Discovery(Begin(Dut, 0, 0), 1)
          /\ TickAfter(Ms(PAIRING_WINDOW_MS)).out = <<>>
  /\ ~dev[Dut].pairingWindowOpen
       => \A i \in 1 .. Len(TickAfter(0).out) :
            TickAfter(0).out[i].ff.request_type # "REQUEST"

\* C26, as far as the code goes: one broadcast REQUEST with hop limit 1 when
\* discovery starts, and no REQUEST from any tick, window open or closed.
C26_DiscoverySentOnce ==
  /\ dev[Dut].currentState = "MENU_SELECTION"
       => StartPairing(MaxAlloc).out = <<Discovery(Begin(Dut, 0, 0), 1)>>
  /\ \A k \in 0 .. 6 :
       \A i \in 1 .. Len(TickAfter(k * Ms(5 * 1000)).out) :
         TickAfter(k * Ms(5 * 1000)).out[i].ff.request_type # "REQUEST"

\* discovery has started and nobody has answered yet
C26_Witness ==
  DiscoveryStarted /\ dev[Dut].targetNodeNum = 0 /\ getUsedFriendsCount(dev[Dut]) = 0

\* 'Start tracking' is row 0 of the actions of the selected friend
TrackSelected(alloc) == handleInputEvent(Begin(Dut, alloc, 0), "SELECT", 0, FALSE)

\* the friend selected in the friend list, or 0
SelectedFriend ==
  LET slot == getFriendSlotByListIndex(dev[Dut], dev[Dut].friendListIndex)
  IN IF slot >= 0 THEN dev[Dut].friends_[slot].node ELSE 0

\* requestMutualTracking(X) as the user reaches it: AWAITING_RESPONSE, target
\* X, the window open for PAIRING_WINDOW_MS, one REQUEST to X with the default
\* hop count
DirectedRequestSent ==
  (dev[Dut].currentState = "FRIEND_LIST_ACTION" /\ SelectedFriend # 0)
  => LET c == TrackSelected(MaxAlloc)
     IN /\ c.currentState = "AWAITING_RESPONSE" /\ c.targetNodeNum = SelectedFriend
        /\ c.pairingWindowOpen
        /\ c.pairingWindowExpiresAt = U32(now + Ms(PAIRING_WINDOW_MS))
        /\ c.out = <<Packet(Begin(Dut, 0, 0), SelectedFriend, "REQUEST", 0)>>

\* the device awaits the answer of a friend, the window open
AwaitingFriend ==
  /\ dev[Dut].currentState = "AWAITING_RESPONSE" /\ dev[Dut].pairingWindowOpen
  /\ findFriend(dev[Dut], dev[Dut].targetNodeNum) >= 0

\* no tick of an awaiting device sends a REQUEST; it leaves AWAITING_RESPONSE,
\* for MENU_SELECTION, when and only when the window has expired
AwaitsUntilExpiry ==
  AwaitingFriend
  => \A k \in 0 .. 7 :
       LET d == k * Ms(5 * 1000)
           c == TickAfter(d)
       IN /\ \A i \in 1 .. Len(c.out) : c.out[i].ff.request_type # "REQUEST"
          /\ c.currentState =
               IF I32(now + d - dev[Dut].pairingWindowExpiresAt) >= 0
               THEN "MENU_SELECTION" ELSE "AWAITING_RESPONSE"

\* the packets of the given types and the user's inputs leave an awaiting
\* device awaiting
StillAwaiting(types) ==
  AwaitingFriend
  => /\ \A from \in Nodes \ {Dut}, type \in types :
          (type = "ACCEPT" => from # dev[Dut].targetNodeNum)
          => Rx(from, type, MaxAlloc, 1, 1).currentState = "AWAITING_RESPONSE"
     /\ \A ev \in InputEvents, row \in Rows("AWAITING_RESPONSE") :
          handleInputEvent(Begin(Dut, MaxAlloc, 0), ev, row, FALSE).currentState
            = "AWAITING_RESPONSE"

\* C27 (as the code has it): requestMutualTracking(X) leaves the device in
\* AWAITING_RESPONSE with target X and a window open for 30 s, having sent one
\* REQUEST to X with the default hop count; no tick sends another. Without an
\* ACCEPT of X the attempt ends by the expiry of the window, or before it by a
\* REQUEST, which an open window makes the device serve whoever sends it.
C27_DirectedRequestOnce ==
  /\ DirectedRequestSent
  /\ AwaitsUntilExpiry
  /\ StillAwaiting(RequestTypes \ {"REQUEST"})
  /\ AwaitingFriend
       => \A from \in Nodes \ {Dut} :
            Rx(from, "REQUEST", MaxAlloc, 1, 1).currentState = "BEING_TRACKED"

\* the directed REQUEST to a friend has just been sent
C27_Witness ==
  /\ last.op = "SELECT" /\ Len(last.out) = 1
  /\ last.out[1].ff.request_type = "REQUEST" /\ last.out[1].hop = 0
  /\ last.out[1].to = dev[Dut].targetNodeNum
  /\ findFriend(dev[Dut], dev[Dut].targetNodeNum) >= 0
  /\ dev[Dut].currentState = "AWAITING_RESPONSE" /\ dev[Dut].pairingWindowOpen

\* C27 (as stated): ... and if no ACCEPT arrives the attempt ends only by the
\* expiry of the window: no other packet and no input ends it.
C27_EndsOnlyByExpiry ==
  /\ DirectedRequestSent
  /\ AwaitsUntilExpiry
  /\ StillAwaiting(RequestTypes)

\* ---- the same device, whose user opens every screen of the module and
\* selects every row; the peers send the packets of the handshake
AllRows == [st \in States |-> Rows(st)]

NextHome ==
  \/ LaunchMenu(Dut)
  \/ Input(Dut, AllRows, FALSE)
  \/ Tick(Dut, FALSE)
  \/ Handshake(Dut)
  \/ Advance

SpecHome == Init /\ [][NextHome]_vars

\* the thread runs at the instant t
TickAt(c, t) == runOnce([c EXCEPT !.tNow = t, !.tSend = t])

\* one step on the way to IDLE: the tick at which the window expires when a
\* response is awaited (no input is handled there), "End session" in the
\* session menu, BACK everywhere else
TowardsIdle(c, mapMenu) ==
  CASE c.currentState = "IDLE" -> c
    [] c.currentState = "AWAITING_RESPONSE" -> TickAt(c, c.pairingWindowExpiresAt)
    [] c.currentState = "TRACKING_MENU" -> handleInputEvent(c, "SELECT", 0, mapMenu)
    [] OTHER -> handleInputEvent(c, "BACK", 0, mapMenu)

\* C28: the module starts in IDLE, and no reachable state is a trap: from
\* every reachable state at most three steps (the tick at the expiry of the
\* window, BACK, or "End session") bring the module to IDLE, whether or not
\* the transport has a buffer for the END_SESSION and whether or not the
\* map's menu is open.
C28_EveryStateReturnsToIdle ==
  /\ last.op = "init" => dev[Dut].currentState = "IDLE"
  /\ \A alloc \in Allocs, mapMenu \in BOOLEAN :
       TowardsIdle(TowardsIdle(TowardsIdle(Begin(Dut, alloc, 0), mapMenu), mapMenu),
                   mapMenu).currentState = "IDLE"

\* a response is awaited, the window has not expired, and the tick at its
\* expiry shows the menu again
C28_Witness ==
  /\ dev[Dut].currentState = "AWAITING_RESPONSE"
  /\ ~PairingWindowExpired(Begin(Dut, 0, 0))
  /\ TowardsIdle(Begin(Dut, 0, 0), FALSE).currentState = "MENU_SELECTION"
  /\ TowardsIdle(TowardsIdle(Begin(Dut, 0, 0), FALSE), FALSE).currentState = "IDLE"

\* a session is active with the target m.targetNodeNum
Tracking(m) ==
  m.currentState \in {"TRACKING_TARGET", "BEING_TRACKED"} /\ m.targetNodeNum # 0

\* the run c kept the target of the module m, or tore its session down
KeptOrEnded(c, m) ==
  \/ c.targetNodeNum = m.targetNodeNum
  \/ c.targetNodeNum = 0 /\ c.currentState = "IDLE"

\* the run c made the module m the tracked side of a session with node from,
\* with no word to the target it had
Retargeted(c, m, from) ==
  /\ c.targetNodeNum = from /\ c.currentState = "BEING_TRACKED"
  /\ \A i \in 1 .. Len(c.out) : c.out[i].to = from
  /\ c.isGpsHighPower = m.isGpsHighPower
  /\ c.gps_update_interval = m.gps_update_interval

\* the user's inputs and the ticks of a session keep its target or end it
LocalRunsKeepOrEnd ==
  \A alloc \in Allocs :
    /\ \A ev \in InputEvents, row \in Rows(dev[Dut].currentState) :
         KeptOrEnded(handleInputEvent(Begin(Dut, alloc, 0), ev, row, FALSE), dev[Dut])
    /\ \A latency \in Latencies :
         KeptOrEnded(runOnce(Begin(Dut, alloc, latency)), dev[Dut])

\* C29: while a session is active with target X, the target changes directly
\* to another node Y only when a REQUEST of Y is served (Y is a known friend,
\* or a window is open): the device is then BEING_TRACKED by Y, the boost
\* untouched and nothing sent to X. Every other packet, every input and every
\* tick keeps the target or tears the session down (target 0, state IDLE).
C29_RetargetedOnlyByServedRequest ==
  Tracking(dev[Dut])
  => /\ LocalRunsKeepOrEnd
     /\ \A from \in Nodes \ {Dut}, type \in RequestTypes, alloc \in Allocs :
          LET c == Rx(from, type, alloc, 1, 1)
          IN IF type = "REQUEST" /\ Served(dev[Dut], from)
             THEN Retargeted(c, dev[Dut], from)
             ELSE KeptOrEnded(c, dev[Dut])

\* a session is active with one friend and the REQUEST of another friend
\* arrives: the device is tracked by the other
C29_Witness ==
  /\ Tracking(dev[Dut])
  /\ \E from \in Peers \ {Dut, dev[Dut].targetNodeNum} :
       /\ findFriend(dev[Dut], from) >= 0
       /\ findFriend(dev[Dut], dev[Dut].targetNodeNum) >= 0
       /\ Rx(from, "REQUEST", MaxAlloc, 1, 1).targetNodeNum = from

\* C29 as stated: whatever the packets of other nodes, the target of an
\* active session changes only through its teardown.
C29_NeverRetargetedInPlace ==
  Tracking(dev[Dut])
  => /\ LocalRunsKeepOrEnd
     /\ \A from \in Nodes \ {Dut}, type \in RequestTypes, alloc \in Allocs :
          KeptOrEnded(Rx(from, type, alloc, 1, 1), dev[Dut])

\* the END_SESSION of the target reaches the device
PeerEnds(alloc) == Rx(dev[Dut].targetNodeNum, "END_SESSION", alloc, 1, 1)

\* the user then closes the session menu, if it is on screen
MenuClosed(c) == handleInputEvent(Ctx(Module(c), Dut, MaxAlloc, 0), "BACK", 0, FALSE)

\* the module m is in a session with node x, or boosted
ActiveWith(m, x) == (Tracking(m) /\ m.targetNodeNum = x) \/ m.isGpsHighPower

\* C30: when the END_SESSION of the current target is delivered during an
\* active session, the session menu on screen or not, the device is not in a
\* tracking state with that target afterwards, nor boosted for it: neither
\* at once nor when the user closes the menu.
C30_PeerEndNeverLeftActive ==
  (InSession(dev[Dut]) /\ dev[Dut].targetNodeNum # 0)
  => \A alloc \in Allocs :
       /\ ~ActiveWith(Module(PeerEnds(alloc)), dev[Dut].targetNodeNum)
       /\ ~ActiveWith(Module(MenuClosed(PeerEnds(alloc))), dev[Dut].targetNodeNum)

\* what the code does: the END_SESSION of the target tears the session down
\* in TRACKING_TARGET and BEING_TRACKED, and is ignored while the session
\* menu is on screen, where BACK then resumes the session
C30_PeerEndIgnoredInMenu ==
  (InSession(dev[Dut]) /\ dev[Dut].targetNodeNum # 0)
  => \A alloc \in Allocs :
       IF dev[Dut].currentState = "TRACKING_MENU"
       THEN /\ Module(PeerEnds(alloc)) = dev[Dut] /\ Quiet(PeerEnds(alloc))
            /\ MenuClosed(PeerEnds(alloc)).currentState = dev[Dut].previousState
            /\ MenuClosed(PeerEnds(alloc)).targetNodeNum = dev[Dut].targetNodeNum
       ELSE /\ PeerEnds(alloc).currentState = "IDLE"
            /\ PeerEnds(alloc).targetNodeNum = 0
            /\ ~PeerEnds(alloc).isGpsHighPower

\* the session menu is on screen over a boosted session when the target ends it
C30_Witness ==
  /\ dev[Dut].currentState = "TRACKING_MENU" /\ dev[Dut].targetNodeNum # 0
  /\ dev[Dut].isGpsHighPower
  /\ Tracking(Module(MenuClosed(PeerEnds(MaxAlloc))))

\* the tick at which the window of the run c expires
Expired(c) == TickAt(c, c.pairingWindowExpiresAt)

\* the ACCEPT of node from reaches the module as the run c left it
LateAccept(c, from) ==
  handleReceivedProtobuf(Ctx(Module(c), Dut, MaxAlloc, 0), from, Blank(from, "ACCEPT"), 1, 1)

\* the ACCEPT of node from changes nothing after the run c
AcceptIgnored(c, from) ==
  Module(LateAccept(c, from)) = Module(c) /\ Quiet(LateAccept(c, from))

\* 'Start Pairing' is row 1 of the menu
StartsPairing(ev, row) == ev = "SELECT" /\ row = 1

\* C31: the directed request of the user to the selected friend X has ended
\* by the expiry of its window. The ACCEPT of X that arrives afterwards is
\* ignored: at once, and after any input of the user in the menu, the start
\* of a broadcast pairing included.
C31_DelayedAcceptIgnored ==
  (dev[Dut].currentState = "FRIEND_LIST_ACTION" /\ SelectedFriend # 0)
  => \A alloc \in Allocs :
       LET e == Expired(TrackSelected(alloc))
       IN /\ e.currentState = "MENU_SELECTION" /\ ~e.pairingWindowOpen
          /\ AcceptIgnored(e, SelectedFriend)
          /\ \A ev \in InputEvents, row \in Rows("MENU_SELECTION") :
               AcceptIgnored(handleInputEvent(e, ev, row, FALSE), SelectedFriend)

\* what the code does: the expiry keeps targetNodeNum, so the late ACCEPT of X
\* is ignored until the user starts a broadcast pairing, which it completes as
\* if it answered the pairing: TRACKING_TARGET with X, the GPS boosted
C31_DelayedAcceptCompletesPairing ==
  (dev[Dut].currentState = "FRIEND_LIST_ACTION" /\ SelectedFriend # 0)
  => \A alloc \in Allocs :
       LET e == Expired(TrackSelected(alloc))
       IN /\ e.currentState = "MENU_SELECTION" /\ ~e.pairingWindowOpen
          /\ e.targetNodeNum = SelectedFriend
          /\ AcceptIgnored(e, SelectedFriend)
          /\ \A ev \in InputEvents, row \in Rows("MENU_SELECTION") :
               LET u == handleInputEvent(e, ev, row, FALSE)
               IN IF StartsPairing(ev, row)
                  THEN /\ LateAccept(u, SelectedFriend).currentState = "TRACKING_TARGET"
                       /\ LateAccept(u, SelectedFriend).targetNodeNum = SelectedFriend
                       /\ LateAccept(u, SelectedFriend).isGpsHighPower
                  ELSE AcceptIgnored(u, SelectedFriend)

\* the user is about to request the tracking of a friend; the request will
\* expire, and the ACCEPT arrive during the pairing started after it
C31_Witness ==
  /\ dev[Dut].currentState = "FRIEND_LIST_ACTION" /\ SelectedFriend # 0
  /\ Expired(TrackSelected(MaxAlloc)).currentState = "MENU_SELECTION"
  /\ LateAccept(handleInputEvent(Expired(TrackSelected(MaxAlloc)), "SELECT", 1, FALSE),
                SelectedFriend).currentState = "TRACKING_TARGET"

\* C32: in TRACKING_TARGET and BEING_TRACKED the pairing window is closed,
\* and the REQUEST of a node that is not a friend is not served: it changes
\* nothing and is not answered.
C32_NoWindowInSession ==
  dev[Dut].currentState \in {"TRACKING_TARGET", "BEING_TRACKED"}
  => /\ ~dev[Dut].pairingWindowOpen
     /\ \A from \in Nodes \ {Dut}, alloc \in Allocs :
          findFriend(dev[Dut], from) < 0
          => LET c == Rx(from, "REQUEST", alloc, 1, 1)
             IN Module(c) = dev[Dut] /\ Quiet(c)

\* a session is active and a node that is not a friend sends a REQUEST
C32_Witness ==
  /\ Tracking(dev[Dut])
  /\ \E from \in Nodes \ {Dut} :
       /\ findFriend(dev[Dut], from) < 0
       /\ Module(Rx(from, "REQUEST", MaxAlloc, 1, 1)) = dev[Dut]

\* every run of a handler from the current state: packets, inputs, ticks now
\* and at the expiry of the window
RunsFromHere ==
  {Rx(from, type, alloc, 1, 1) :
     from \in Nodes \ {Dut}, type \in RequestTypes, alloc \in Allocs}
  \cup {handleInputEvent(Begin(Dut, alloc, 0), ev, row, FALSE) :
          ev \in InputEvents, row \in Rows(dev[Dut].currentState), alloc \in Allocs}
  \cup {runOnce(Begin(Dut, alloc, latency)) : alloc \in Allocs, latency \in Latencies}
  \cup {Expired(Begin(Dut, alloc, 0)) : alloc \in Allocs}

\* C33: in AWAITING_RESPONSE the pairing window is open: the tick at its
\* expiry closes it and shows the menu, and no run of a handler leaves the
\* device awaiting with the window closed.
C33_AwaitingHasOpenWindow ==
  dev[Dut].currentState = "AWAITING_RESPONSE"
  => /\ dev[Dut].pairingWindowOpen
     /\ Expired(Begin(Dut, 0, 0)).currentState = "MENU_SELECTION"
     /\ ~Expired(Begin(Dut, 0, 0)).pairingWindowOpen
     /\ \A c \in RunsFromHere :
          c.currentState = "AWAITING_RESPONSE" => c.pairingWindowOpen

\* a response is awaited and the window is about to expire
C33_Witness ==
  /\ dev[Dut].currentState = "AWAITING_RESPONSE"
  /\ dev[Dut].pairingWindowOpen
  /\ PairingWindowExpired(Begin(Dut, 0, 0))
  /\ runOnce(Begin(Dut, 0, 0)).currentState = "MENU_SELECTION"

\* C34: in TRACKING_TARGET and BEING_TRACKED the target is a node other than
\* the device itself, never 0; a packet whose sender is the device itself is
\* discarded, whatever its type, before anything changes.
C34_SessionTargetIsAPeer ==
  /\ dev[Dut].currentState \in {"TRACKING_TARGET", "BEING_TRACKED"}
       => dev[Dut].targetNodeNum # 0 /\ dev[Dut].targetNodeNum # Dut
  /\ \A type \in RequestTypes, alloc \in Allocs :
       LET c == Rx(Dut, type, alloc, 1, 1)
       IN Module(c) = dev[Dut] /\ Quiet(c)

\* the ACCEPT of the awaited friend has just started a session, and the
\* device's own REQUEST, heard back, would not replace the target
C34_Witness ==
  /\ dev[Dut].currentState = "TRACKING_TARGET"
  /\ last.op = "rx" /\ last.type = "ACCEPT" /\ last.from = dev[Dut].targetNodeNum
  /\ Rx(Dut, "REQUEST", MaxAlloc, 1, 1).targetNodeNum = dev[Dut].targetNodeNum

\* the clock has reached pairingWindowExpiresAt of the module m
PastExpiry(m) == I32(now - m.pairingWindowExpiresAt) >= 0

\* the nodes that are not in the directory of the device
NonFriends == {from \in Nodes \ {Dut} : findFriend(dev[Dut], from) < 0}

\* the REQUEST of node from reaches the module as the run c left it
RequestAfter(c, from, alloc) ==
  handleReceivedProtobuf(Ctx(Module(c), Dut, alloc, 0), from, Blank(from, "REQUEST"), 1, 1)

\* C35: a REQUEST of a node that is not a friend, handled when the clock has
\* reached pairingWindowExpiresAt, is not accepted - no BEING_TRACKED, no
\* friend record, no answer - whether the tick that closes the window has
\* run before the packet is handled or not.
C35_NoPairingPastExpiry ==
  PastExpiry(dev[Dut])
  => \A from \in NonFriends, alloc \in Allocs :
       LET c == Rx(from, "REQUEST", alloc, 1, 1)
       IN Module(c) = dev[Dut] /\ Quiet(c)

\* what the code does: the REQUEST is served as long as pairingWindowOpen is
\* set, which is until the first tick after the expiry; once that tick has
\* run it is ignored
C35_WindowClosedByTick ==
  \A from \in NonFriends, alloc \in Allocs :
    LET c == Rx(from, "REQUEST", alloc, 1, 1)
        t == runOnce(Begin(Dut, alloc, 0))
    IN /\ IF dev[Dut].pairingWindowOpen
          THEN /\ c.currentState = "BEING_TRACKED" /\ c.targetNodeNum = from
               /\ findFriend(c, from) >= 0
          ELSE Module(c) = dev[Dut] /\ Quiet(c)
       /\ PastExpiry(dev[Dut])
            => /\ ~t.pairingWindowOpen
               /\ findFriend(t, from) < 0
                    => Module(RequestAfter(t, from, alloc)) = Module(t)

\* the window has expired, the tick that closes it has not run yet, and the
\* REQUEST of a stranger is served
C35_Witness ==
  /\ PairingWindowExpired(Begin(Dut, 0, 0))
  /\ \E from \in NonFriends :
       Rx(from, "REQUEST", MaxAlloc, 1, 1).currentState = "BEING_TRACKED"

\* the friends in the directory of the device
Friends == {node \in FriendIds : findFriend(dev[Dut], node) >= 0}

\* friend y is heard, with its position; then the user removes the friend on
\* row listIdx of the list (row 0 removes nothing)
HeardThenRemoved(y, listIdx) ==
  removeFriendAt(handleReceivedProtobuf(Begin(Dut, 0, 0), y, PeerPacket(y, "NONE", TRUE), 1, 1),
                 listIdx)

\* the nodes, other than y, that a pairing can add to the directory of c
Newcomers(c, y) == {z \in FriendIds \ {y} : findFriend(c, z) < 0}

\* the record of node z in the directory of c holds no telemetry
CacheEmpty(c, z) ==
  /\ c.friends_[findFriend(c, z)].last_data = FF_init_default
  /\ c.friends_[findFriend(c, z)].last_heard_time = 0

\* C36: the record that upsertFriend creates for a node that was not in the
\* directory - in a slot never used, in a slot freed by removeFriendAt or in
\* the evicted slot 0 - holds no telemetry of another node: last_data and
\* last_heard_time are empty.
C36_NewFriendCacheEmpty ==
  \A y \in Friends, listIdx \in 0 .. MAX_FRIENDS :
    \A z \in Newcomers(HeardThenRemoved(y, listIdx), y) :
      CacheEmpty(upsertFriend(HeardThenRemoved(y, listIdx), z, 1, 1), z)

\* what the code does: upsertFriend writes node, session_id, secret and used
\* and leaves last_data and last_heard_time of the slot as they were, so the
\* cache of the new friend is empty in a slot never used and is the cache of
\* the former occupant in a freed or evicted slot
C36_NewFriendInheritsSlotCache ==
  \A y \in Friends, listIdx \in 0 .. MAX_FRIENDS :
    \A z \in Newcomers(HeardThenRemoved(y, listIdx), y) :
      LET c == HeardThenRemoved(y, listIdx)
          idx == UpsertSlot(c, z)
          u == upsertFriend(c, z, 1, 1)
      IN /\ findFriend(u, z) = idx /\ u.friends_[idx].node = z
         /\ u.friends_[idx].last_data = c.friends_[idx].last_data
         /\ u.friends_[idx].last_heard_time = c.friends_[idx].last_heard_time
         /\ c.friends_[idx] = FriendRecord_init => CacheEmpty(u, z)
         /\ c.friends_[idx].node = y
              => u.friends_[idx].last_data = PeerPacket(y, "NONE", TRUE)

\* the directory is full, the friend of slot 0 has been heard, and the next
\* pairing gives its slot and its position to the new friend
C36_Witness ==
  /\ getUsedFriendsCount(dev[Dut]) = MAX_FRIENDS
  /\ \E y \in Friends :
       /\ findFriend(dev[Dut], y) = 0
       /\ \E z \in Newcomers(HeardThenRemoved(y, 0), y) :
            upsertFriend(HeardThenRemoved(y, 0), z, 1, 1).friends_[0].last_data
              = PeerPacket(y, "NONE", TRUE)

\* ---- one device with a stored friend, whose clock has any value of its
\* 32-bit range when the user opens a window: far from the wrap, just before
\* it, and such that the expiry falls before, on and after it
OpenTimes ==
  {0, 1, Wrap32 \div 2 - Ms(PAIRING_WINDOW_MS), Wrap32 \div 2,
   Wrap32 - Ms(PAIRING_WINDOW_MS) - 1, Wrap32 - Ms(PAIRING_WINDOW_MS),
   Wrap32 - Ms(PAIRING_WINDOW_MS) + 1, Wrap32 - 1}

\* the times that pass between the opening of a window and a tick
ElapsedTimes ==
  {0, 1, Ms(PAIRING_WINDOW_MS) - 1, Ms(PAIRING_WINDOW_MS), Ms(PAIRING_WINDOW_MS) + 1,
   Wrap32 \div 4, Wrap32 \div 2 - 1}

InitWrap ==
  /\ dev = [n \in Peers |-> [ModuleInit(n) EXCEPT !.friends_ = StoredFriends(n, 1)]]
  /\ hasLock = [n \in Peers |-> FALSE]
  /\ now \in OpenTimes
  /\ net = {}
  /\ last = NoEffect("init", 0, 0, "NONE")
  /\ mag = MagnetometerInit(TRUE)

\* the rows that open a window: 'Start Pairing', and 'Track' on a friend
WindowRows ==
  [st \in States |->
     CASE st = "MENU_SELECTION" -> {1, 2}
       [] st = "FRIEND_LIST" -> {0}
       [] st = "FRIEND_LIST_ACTION" -> {0}
       [] OTHER -> {}]

NoRows == [st \in States |-> {}]

\* the time since the open window was opened
Elapsed(m) == U32(now - m.pairingWindowExpiresAt + Ms(PAIRING_WINDOW_MS))

\* the clock runs on while a window is open
ClockRuns ==
  /\ dev[Dut].pairingWindowOpen
  /\ \E e \in ElapsedTimes :
       /\ e > Elapsed(dev[Dut])
       /\ now' = U32(now + e - Elapsed(dev[Dut]))
  /\ last' = NoEffect("advance", 0, 0, "NONE")
  /\ UNCHANGED <<dev, hasLock, net, mag>>

NextWrap ==
  \/ LaunchMenu(Dut)
  \/ now \in OpenTimes /\ Input(Dut, WindowRows, FALSE)
  \/ Input(Dut, NoRows, FALSE)
  \/ TickSure(Dut)
  \/ ClockRuns

SpecWrap == InitWrap /\ [][NextWrap]_vars

\* the run c has opened a window now; the tick e later leaves it open, and
\* the device awaiting, iff e is less than PAIRING_WINDOW_MS
ExpiresAfterWindow(c, e) ==
  LET t == TickAt(c, U32(now + e))
  IN /\ c.pairingWindowOpen /\ c.currentState = "AWAITING_RESPONSE"
     /\ c.pairingWindowExpiresAt = U32(now + Ms(PAIRING_WINDOW_MS))
     /\ IF e < Ms(PAIRING_WINDOW_MS)
        THEN t.pairingWindowOpen /\ t.currentState = "AWAITING_RESPONSE"
        ELSE ~t.pairingWindowOpen /\ t.currentState = "MENU_SELECTION"

\* C37: whatever the value t of the 32-bit clock when beginPairing or
\* requestMutualTracking opens the window, the tick at elapsed time e leaves
\* the window open when e < PAIRING_WINDOW_MS and closes it when
\* PAIRING_WINDOW_MS <= e < 2^31 ms, also when t + PAIRING_WINDOW_MS or t + e
\* passes 2^32.
C37_ExpiryUnderWrap ==
  \A e \in ElapsedTimes :
    /\ dev[Dut].currentState = "MENU_SELECTION"
         => ExpiresAfterWindow(handleInputEvent(Begin(Dut, MaxAlloc, 0), "SELECT", 1, FALSE), e)
    /\ (dev[Dut].currentState = "FRIEND_LIST_ACTION" /\ SelectedFriend # 0)
         => ExpiresAfterWindow(TrackSelected(MaxAlloc), e)
    /\ (dev[Dut].pairingWindowOpen /\ e = Elapsed(dev[Dut]))
         => (runOnce(Begin(Dut, MaxAlloc, 0)).pairingWindowOpen <=> e < Ms(PAIRING_WINDOW_MS))

\* a window was opened so late that its expiry has wrapped while the clock
\* has not: the tick leaves it open
C37_Witness ==
  /\ dev[Dut].currentState = "AWAITING_RESPONSE" /\ dev[Dut].pairingWindowOpen
  /\ dev[Dut].pairingWindowExpiresAt < Ms(PAIRING_WINDOW_MS)
  /\ now > Wrap32 \div 2
  /\ Elapsed(dev[Dut]) > 0
  /\ runOnce(Begin(Dut, MaxAlloc, 0)).pairingWindowOpen

\* the in-use slots of m below slot s
UsedBelow(m, s) == {t \in Slots : t < s /\ m.friends_[t].used}

\* the run c cleared the in-use flag of slot r of the module m, and nothing else
OnlyUnused(c, m, r) ==
  /\ c.friends_ = [m.friends_ EXCEPT ![r].used = FALSE]
  /\ [Module(c) EXCEPT !.friends_ = m.friends_] = m

\* C38: removeFriendAt(listIdx) on a row 1 .. count removes the listIdx-th
\* in-use record in slot order: the count goes down by one, every other
\* record and every other field of the module is unchanged, and the
\* directory is saved once. On row 0 ('Back'), a negative row or a row
\* beyond the count, nothing changes and nothing is saved.
C38_RemoveExactlyTheRow ==
  \A listIdx \in (0 - 1) .. (MAX_FRIENDS + 1) :
    LET m == dev[Dut]
        c == removeFriendAt(Begin(Dut, 0, 0), listIdx)
    IN IF 1 <= listIdx /\ listIdx <= getUsedFriendsCount(m)
       THEN /\ getUsedFriendsCount(c) = getUsedFriendsCount(m) - 1
            /\ c.saves = 1
            /\ \E r \in Slots :
                 /\ m.friends_[r].used
                 /\ Cardinality(UsedBelow(m, r)) = listIdx - 1
                 /\ OnlyUnused(c, m, r)
       ELSE Module(c) = m /\ c.saves = 0

\* the directory has a gap below its last friend, whose row is not its slot
C38_Witness ==
  /\ last.op = "removeFriendAt"
  /\ \E r \in Slots :
       /\ dev[Dut].friends_[r].used
       /\ Cardinality(UsedBelow(dev[Dut], r)) + 1 < r
       /\ getFriendSlotByListIndex(dev[Dut], Cardinality(UsedBelow(dev[Dut], r)) + 1) = r

\* ---- the compass of the device: the user starts figure-8 calibrations, at
\* most MaxStarts of them, the thread of the compass runs with reads that
\* succeed or fail, and the clock, which wraps, runs on during a calibration
MaxStarts == 2

\* the values of the clock at which the first calibration can start
CalStartTimes == {StartTime, Wrap32 - Ms(8000), Wrap32 - 1}

\* the durations asked for (0 asks for the default), and the times that pass
\* from the start of a calibration to a run of the thread
CalDurations == {0, Ms(8000)}
CalElapsed ==
  {1, Ms(8000) - 1, Ms(8000), Ms(15000) - 1, Ms(15000), Wrap32 \div 2}

\* what qmcReadRaw reads on the axis
RawSamples == {0 - 3, 5}

InitCal ==
  /\ dev = [n \in Peers |-> ModuleInit(n)]
  /\ hasLock = [n \in Peers |-> FALSE]
  /\ now \in CalStartTimes
  /\ net = {}
  /\ last = NoEffect("init", 0, 0, "NONE")
  /\ mag \in {MagnetometerInit(haveMag) : haveMag \in BOOLEAN}

StartFigure8 ==
  /\ mag.started < MaxStarts
  /\ \E d \in CalDurations :
       mag' = [startFigure8Calibration(mag, d, now) EXCEPT !.started = @ + 1]
  /\ last' = NoEffect("startFigure8Calibration", Dut, 0, "NONE")
  /\ UNCHANGED <<dev, hasLock, now, net>>

\* the thread of the compass runs and reads the sensor
MagTickOk ==
  /\ \E rx \in RawSamples : mag' = Magnetometer_runOnce(mag, TRUE, rx, now)
  /\ last' = NoEffect("Magnetometer_runOnce", Dut, 0, "NONE")
  /\ UNCHANGED <<dev, hasLock, now, net>>

\* the thread of the compass runs and the read fails
MagTickFail ==
  /\ mag' = Magnetometer_runOnce(mag, FALSE, 0, now)
  /\ last' = NoEffect("qmcReadRaw", Dut, 0, "NONE")
  /\ UNCHANGED <<dev, hasLock, now, net>>

\* the thread of FriendFinderModule runs and looks at isCalibrating()
BannerTick ==
  /\ mag' = calibrationBanner(mag)
  /\ last' = NoEffect("calibrationBanner", Dut, 0, "NONE")
  /\ UNCHANGED <<dev, hasLock, now, net>>

\* time passes during a calibration
CalClockRuns ==
  /\ mag.calibrating
  /\ \E e \in CalElapsed :
       /\ e > U32(now - mag.calStartMs)
       /\ now' = U32(mag.calStartMs + e)
  /\ last' = NoEffect("advance", 0, 0, "NONE")
  /\ UNCHANGED <<dev, hasLock, net, mag>>

NextCal ==
  \/ StartFigure8
  \/ MagTickOk
  \/ MagTickFail
  \/ BannerTick
  \/ CalClockRuns

\* the clock never stops, and the thread of the compass keeps running with
\* reads that succeed again and again
SpecCal == InitCal /\ [][NextCal]_vars /\ WF_vars(CalClockRuns) /\ WF_vars(MagTickOk)

\* what a start and a run of the thread do to the calibration, now
CalibrationSteps ==
  /\ mag.calibrating => mag.haveMag
  /\ mag.saved <= mag.started
  /\ \A d \in CalDurations :
       LET g == startFigure8Calibration(mag, d, now)
       IN IF mag.haveMag
          THEN /\ g.calibrating /\ g.calStartMs = now
               /\ g.calDurationMs = (IF d = 0 THEN Ms(15000) ELSE d)
               /\ g.saved = mag.saved /\ g.bias2X = mag.bias2X
          ELSE g = mag /\ ~g.calibrating
  /\ \A ok \in BOOLEAN, rx \in RawSamples :
       LET g == Magnetometer_runOnce(mag, ok, rx, now)
       IN IF mag.calibrating /\ ok /\ U32(now - mag.calStartMs) >= mag.calDurationMs
          THEN /\ ~g.calibrating
               /\ g.saved = mag.saved + 1
               /\ g.bias2X = g.maxX + g.minX
               /\ g.minX <= rx /\ rx <= g.maxX
               /\ \A rx2 \in RawSamples : Magnetometer_runOnce(g, TRUE, rx2, now) = g
          ELSE /\ g.calibrating = mag.calibrating
               /\ g.saved = mag.saved /\ g.bias2X = mag.bias2X

NextList ==
  \/ LaunchMenu(Dut)
  \/ Input(Dut, AllRows, FALSE)
  \/ Tick(Dut, FALSE)
  \/ Handshake(Dut)
  \/ Advance

SpecList == InitBackground /\ [][NextList]_vars

\* C40: in FRIEND_LIST_ACTION the selection is the row of a friend,
\* 1 <= friendListIndex <= count, so that getFriendSlotByListIndex finds an
\* in-use slot; in FRIEND_LIST it is a row of the list, 'Back' included:
\* 0 <= friendListIndex <= count.
C40_SelectionIsARow ==
  LET m == dev[Dut]
      slot == getFriendSlotByListIndex(m, m.friendListIndex)
  IN /\ m.currentState = "FRIEND_LIST_ACTION"
          => /\ 1 <= m.friendListIndex /\ m.friendListIndex <= getUsedFriendsCount(m)
             /\ slot \in Slots /\ m.friends_[slot].used
     /\ m.currentState = "FRIEND_LIST"
          => 0 <= m.friendListIndex /\ m.friendListIndex <= getUsedFriendsCount(m)

\* the last friend of a list of several is selected, and 'Remove' moves the
\* selection up to the friend that is last afterwards
C40_Witness ==
  /\ dev[Dut].currentState = "FRIEND_LIST_ACTION"
  /\ getUsedFriendsCount(dev[Dut]) >= 2
  /\ dev[Dut].friendListIndex = getUsedFriendsCount(dev[Dut])
  /\ handleInputEvent(Begin(Dut, 0, 0), "SELECT", 1, FALSE).friendListIndex
       = getUsedFriendsCount(dev[Dut]) - 1

====
